---- MODULE Spec2Model ----
(***************************************************************************)
(* Model of the wiki data model of km_testing.js: the bundle parser with   *)
(* its section indexer, the orphan promoter (attachSecondaryHomes), the    *)
(* hash addresser (computeHashes, find), heading numbering and the ranked  *)
(* search.  Strings are sequences of one-character strings, so that join,  *)
(* split, trim, lower-casing and the regular expressions are computed and  *)
(* not assumed.  Pages are referred to by their position in `pages`        *)
(* (object identity in the source); 0 stands for null.                     *)
(***************************************************************************)
EXTENDS Integers, Sequences, FiniteSets, TLC

VARIABLES
    bundle,     \* the metadata blocks matched in the bundle text, in order
    pages,      \* let pages        (km_testing.js:125)
    byId,       \* let byId         (km_testing.js:126)
    root,       \* let root         (km_testing.js:127), 0 = null
    descMemo,   \* const descMemo   (km_testing.js:128)
    pc,         \* how far boot (km_testing.js:1442-1444) has come
    segs,       \* the argument of the last find(segs)
    found,      \* the page the last find(segs) returned, 0 = none yet
    hids,       \* the ids numberHeadings gave the rendered headings
    query,      \* the argument of the last search(q)
    scored,     \* the scored list the last search(q) built
    view,       \* the results list and the tree as search(q) left them
    graph,      \* what the last buildGraphData() returned
    held,       \* the model a reader took hold of before the last re-parse
    location,   \* location.hash
    currentPage,\* let currentPage  (km_testing.js:948), 0 = null
    anchor,     \* the anchor the last route() computed
    contentEl,  \* the page whose markup #content holds, 0 = none
    decor,      \* the table of contents, the copy links, prev/next and see-also
    renders,    \* the render(page, anchor) calls suspended at an await
    loaded,     \* the lazily loaded libraries that have arrived
    box,        \* the value of the search input
    timer,      \* the pending debounce timeout of the search input
    lastEvent   \* the last event of the search box: "input" or "click"

routeVars == <<location, currentPage, anchor, contentEl, decor, renders, loaded>>
boxVars == <<box, timer, lastEvent>>
vars == <<bundle, pages, byId, root, descMemo, pc, segs, found, hids, query, scored, view,
          graph, held, routeVars, boxVars>>

(***************************************************************************)
(* Bounds of the model.                                                    *)
(***************************************************************************)
MaxPages == 3
MaxLines == 3
MaxSegs == 2
MaxSearchPages == 1

(***************************************************************************)
(* Characters and strings.                                                 *)
(***************************************************************************)
LF == "\n"
CR == "\r"
TAB == "\t"
BQ == "BQ"          \* the backquote character
TILDE == "~"
HASHCH == "#"
SP == " "

\* The value `undefined` of a property that the metadata block does not set.
Undef == <<"undefined">>

\* What \s matches, among the characters of the model.
IsSpace(c) == c \in {SP, TAB, LF, CR}

\* What . does not match.
IsLineTerminator(c) == c \in {LF, CR}

LowerLetters == <<"a","b","c","d","e","f","g","h","i","j","k","l","m",
                  "n","o","p","q","r","s","t","u","v","w","x","y","z">>
UpperLetters == <<"A","B","C","D","E","F","G","H","I","J","K","L","M",
                  "N","O","P","Q","R","S","T","U","V","W","X","Y","Z">>
DigitChars == <<"0","1","2","3","4","5","6","7","8","9">>

Range(s) == {s[i] : i \in 1..Len(s)}

\* What \w matches.
IsWordChar(c) == c \in Range(LowerLetters) \cup Range(UpperLetters)
                       \cup Range(DigitChars) \cup {"_"}

LowerChar(c) ==
    IF c \in Range(UpperLetters)
    THEN LowerLetters[CHOOSE i \in 1..26 : UpperLetters[i] = c]
    ELSE c

\* String.prototype.toLowerCase
ToLower(s) == [i \in 1..Len(s) |-> LowerChar(s[i])]

Min(a, b) == IF a < b THEN a ELSE b

\* String.prototype.slice(a, b), 0-based, end exclusive, clamped.
Slice(s, a, b) == SubSeq(s, Min(a, Len(s)) + 1, Min(b, Len(s)))

\* String.prototype.trim
Trim(s) ==
    LET keep == {i \in 1..Len(s) : ~IsSpace(s[i])}
    IN  IF keep = {} THEN <<>>
        ELSE SubSeq(s, CHOOSE i \in keep : \A j \in keep : i <= j,
                       CHOOSE i \in keep : \A j \in keep : j <= i)

\* t occurs in s at 0-based position k.
OccursAt(s, t, k) == /\ k + Len(t) <= Len(s)
                     /\ \A j \in 1..Len(t) : s[k + j] = t[j]

\* String.prototype.includes
Includes(s, t) == \E k \in 0..Len(s) : OccursAt(s, t, k)

RECURSIVE Join(_, _)
\* Array.prototype.join of strings
Join(ss, sep) ==
    IF Len(ss) = 0 THEN <<>>
    ELSE IF Len(ss) = 1 THEN ss[1]
    ELSE ss[1] \o sep \o Join(Tail(ss), sep)

RECURSIVE SplitAcc(_, _, _, _)
SplitAcc(s, sepc, i, cur) ==
    IF i > Len(s) THEN <<cur>>
    ELSE IF s[i] = sepc THEN <<cur>> \o SplitAcc(s, sepc, i + 1, <<>>)
    ELSE SplitAcc(s, sepc, i + 1, Append(cur, s[i]))

\* String.prototype.split on one character ("".split(c) is [""]).
SplitChar(s, sepc) == SplitAcc(s, sepc, 1, <<>>)

RECURSIVE SplitLinesAcc(_, _, _)
SplitLinesAcc(s, i, cur) ==
    IF i > Len(s) THEN <<cur>>
    ELSE IF s[i] = LF THEN <<cur>> \o SplitLinesAcc(s, i + 1, <<>>)
    ELSE IF s[i] = CR /\ i < Len(s) /\ s[i + 1] = LF
         THEN <<cur>> \o SplitLinesAcc(s, i + 2, <<>>)
    ELSE SplitLinesAcc(s, i + 1, Append(cur, s[i]))

\* p.content.split(/\r?\n/)
SplitLines(s) == SplitLinesAcc(s, 1, <<>>)

RECURSIVE SplitWsAcc(_, _, _, _)
SplitWsAcc(s, i, cur, inSep) ==
    IF i > Len(s) THEN <<cur>>
    ELSE IF IsSpace(s[i])
         THEN IF inSep THEN SplitWsAcc(s, i + 1, cur, TRUE)
              ELSE <<cur>> \o SplitWsAcc(s, i + 1, <<>>, TRUE)
    ELSE SplitWsAcc(s, i + 1, Append(cur, s[i]), FALSE)

\* val.split(/\s+/)
SplitWs(s) == SplitWsAcc(s, 1, <<>>, FALSE)

RECURSIVE NumStr(_)
\* The decimal digits of a counter, as join renders a number.
NumStr(n) == IF n < 10 THEN <<DigitChars[n + 1]>>
             ELSE NumStr(n \div 10) \o <<DigitChars[(n % 10) + 1]>>

\* How string concatenation and join render a value that may be undefined.
StrOf(v) == IF v = Undef THEN <<"u","n","d","e","f","i","n","e","d">> ELSE v
JoinStr(v) == IF v = Undef THEN <<>> ELSE v

RECURSIVE Dedup(_)
\* new Set(array), in insertion order
Dedup(ss) ==
    IF ss = <<>> THEN <<>>
    ELSE LET init == Dedup(SubSeq(ss, 1, Len(ss) - 1))
             last == ss[Len(ss)]
         IN  IF last \in Range(init) THEN init ELSE Append(init, last)

(***************************************************************************)
(* Section indexer: the per-page heading scan of parseMarkdownBundle.      *)
(***************************************************************************)
\* The parser's counter array has 6 slots, numberHeadings' has 7.
ParserSlots == 6
HeadingSlots == 7
\* #{1,6}
MaxHashes == 6

\* /^(?:```|~~~)/.test(line)
IsFenceLine(line) ==
    /\ Len(line) >= 3
    /\ \/ \A i \in 1..3 : line[i] = BQ
       \/ \A i \in 1..3 : line[i] = TILDE

\* The number of '#' the line starts with.
LeadingHashes(line) ==
    Cardinality({k \in 1..Len(line) : \A i \in 1..k : line[i] = HASHCH})

\* /^(#{1,6})\s+/.test(line): the hashes must be followed by white space, so
\* the group is the whole run of leading hashes.
HeadingTest(line) ==
    LET h == LeadingHashes(line)
    IN  /\ h \in 1..MaxHashes
        /\ Len(line) > h
        /\ IsSpace(line[h + 1])

\* line.match(/^(#{1,6})\s+(.+)/): <<>> for null, else one record with the two
\* groups.  \s+ is greedy and gives characters back until . has one to match.
HeadingMatch(line) ==
    LET h  == LeadingHashes(line)
        js == {j \in 1..(Len(line) - h - 1) :
                  /\ \A i \in 1..j : IsSpace(line[h + i])
                  /\ ~IsLineTerminator(line[h + j + 1])}
    IN  IF h \notin 1..MaxHashes \/ js = {} THEN <<>>
        ELSE LET j     == CHOOSE x \in js : \A y \in js : y <= x
                 start == h + j + 1
                 stops == {e \in start..Len(line) :
                              \A i \in start..e : ~IsLineTerminator(line[i])}
                 end   == CHOOSE e \in stops : \A y \in stops : y <= e
             IN  <<[hashes |-> h, txt |-> SubSeq(line, start, end)]>>

\* counters[level]++; for (i = level + 1; i < slots; i++) counters[i] = 0
\* (level is 0-based, the sequence 1-based).
Bump(counters, level, slots) ==
    [i \in 1..Len(counters) |->
        IF i = level + 1 THEN counters[i] + 1
        ELSE IF i > level + 1 /\ i <= slots THEN 0
        ELSE counters[i]]

\* The parser's two lines (189-190) and numberHeadings' (376-377).
ParserBumpNoReset(counters, level) ==
    [i \in 1..Len(counters) |-> IF i = level + 1 THEN counters[i] + 1 ELSE counters[i]]
ParserBump(counters, level) == Bump(counters, level, ParserSlots)
HeadingBump(counters, level) == Bump(counters, level, HeadingSlots)

\* counters.slice(0, level + 1).filter(Boolean).join('_')
CounterId(counters, level) ==
    LET sl   == SubSeq(counters, 1, Min(level + 1, Len(counters)))
        kept == SelectSeq(sl, LAMBDA c : c # 0)
    IN  Join([i \in 1..Len(kept) |-> NumStr(kept[i])], <<"_">>)

\* prev.body = ...; prev.search = (prev.txt + ' ' + prev.body).toLowerCase()
Commit(prev, body) ==
    [prev EXCEPT !.body = Trim(body),
                 !.search = ToLower(prev.txt \o <<SP>> \o Trim(body))]

ScanInit ==
    [counters |-> [i \in 1..ParserSlots |-> 0], sections |-> <<>>,
     inFence |-> FALSE, offset |-> 0, prev |-> <<>>, threw |-> FALSE]

\* The fence test and the heading test of one line.
FenceAfterNoToggle(st, line) == st.inFence
FenceAfter(st, line) == IF IsFenceLine(line) THEN ~st.inFence ELSE st.inFence
HeadingSeenAnywhere(st, line) == HeadingTest(line)
HeadingSeen(st, line) == ~FenceAfter(st, line) /\ HeadingTest(line)

\* The heading branch of the loop body (lines 181-195): `secs` are the
\* sections with the previous one committed, `m` the result of line.match.
HeadingBranch(st, line, inF, secs, m) ==
    IF m = <<>>
    \* destructuring null: TypeError
    THEN [st EXCEPT !.inFence = inF, !.sections = secs, !.threw = TRUE]
    ELSE [counters |-> ParserBump(st.counters, m[1].hashes - 1),
          sections |-> secs, inFence |-> inF,
          offset |-> st.offset + Len(line) + 1,
          prev |-> <<[id |-> CounterId(ParserBump(st.counters, m[1].hashes - 1),
                                       m[1].hashes - 1),
                      txt |-> Trim(m[1].txt),
                      bodyStart |-> st.offset + Len(line) + 1,
                      body |-> <<>>, search |-> <<>>]>>,
          threw |-> FALSE]

\* if (prev) { prev.body = ...; prev.search = ...; sections.push(prev) }
CommitPrev(st, content, end) ==
    IF st.prev # <<>>
    THEN Append(st.sections, Commit(st.prev[1], Slice(content, st.prev[1].bodyStart, end)))
    ELSE st.sections

\* One iteration of  for (const line of p.content.split(/\r?\n/)) .
ScanStep(st, content, line) ==
    IF HeadingSeen(st, line)
    THEN HeadingBranch(st, line, FenceAfter(st, line),
                       CommitPrev(st, content, st.offset), HeadingMatch(line))
    ELSE [st EXCEPT !.inFence = FenceAfter(st, line),
                    !.offset = st.offset + Len(line) + 1]

\* The next line, unless an earlier one threw.
ScanNext(before, content, line) ==
    IF before.threw THEN before ELSE ScanStep(before, content, line)

RECURSIVE ScanLines(_, _, _, _)
\* The scan state after the first k lines (or at the line that threw).
ScanLines(content, lines, k, st) ==
    IF k = 0 THEN st
    ELSE ScanNext(ScanLines(content, lines, k - 1, st), content, lines[k])

ScanPrefix(content, k) == ScanLines(content, SplitLines(content), k, ScanInit)

\* if (prev) { ... }  after the loop: the trailing section is committed.
ScanEnd(st, content) ==
    IF st.threw \/ st.prev = <<>> THEN st
    ELSE [st EXCEPT !.sections = CommitPrev(st, content, Len(content))]

\* The whole scan of one page.
ScanPage(content) == ScanEnd(ScanPrefix(content, Len(SplitLines(content))), content)

\* numberHeadings(elm): the ids given to the heading elements, whose levels
\* (1 for h1 ... 6 for h6) are `levels`, in document order.
RECURSIVE NumberFrom(_, _)
NumberFrom(levels, counters) ==
    IF levels = <<>> THEN <<>>
    ELSE LET level == Head(levels) - 1
             cs    == HeadingBump(counters, level)
         IN  <<CounterId(cs, level)>> \o NumberFrom(Tail(levels), cs)

NumberHeadingIds(levels) == NumberFrom(levels, [i \in 1..HeadingSlots |-> 0])

(***************************************************************************)
(* parseMarkdownBundle.  A block of `bundle` is what one match of the      *)
(* metadata pattern yields: the quoted values of the keys id, parent,      *)
(* title and tags (Undef for a key the header does not bind) and the body  *)
(* text up to the next block.                                              *)
(***************************************************************************)
NoCluster == 0 - 1
\* A page buildGraphData has not visited has no field _i.
NoIndex == 0 - 1
HomeId == <<"h","o","m","e">>
EmptyMap == [k \in {} |-> 0]

\* meta[k] = v.trim()
MetaVal(v) == IF v = Undef THEN Undef ELSE Trim(v)

\* const page = { ...meta, content: (body || '').trim(), children: [] }
\* The raw parent string is kept in parentRaw; parent is the link that
\* p.parent holds once the linking loop has passed the page (0 = null).
NewPage(b) ==
    [id |-> MetaVal(b.id), title |-> MetaVal(b.title), parentRaw |-> MetaVal(b.parent),
     tags |-> MetaVal(b.tags), content |-> Trim(b.body), children |-> <<>>,
     parent |-> 0, tagsSet |-> <<>>, searchStr |-> <<>>, sections |-> <<>>,
     isSecondary |-> FALSE, clusterId |-> NoCluster, hash |-> Undef, _i |-> NoIndex]

NewPages(bs) == [i \in 1..Len(bs) |-> NewPage(bs[i])]

FirstWinsLookup(ps) ==
    [k \in {ps[i].id : i \in 1..Len(ps)} |->
        CHOOSE i \in 1..Len(ps) : ps[i].id = k /\ \A j \in 1..Len(ps) : ps[j].id = k => i <= j]
\* byId.set(page.id, page) for every page in order: the last one wins.
Lookup(ps) ==
    [k \in {ps[i].id : i \in 1..Len(ps)} |->
        CHOOSE i \in 1..Len(ps) : ps[i].id = k /\ \A j \in 1..Len(ps) : ps[j].id = k => j <= i]

\* root = byId.get('home') || pages[0]
FirstPageRoot(ps, ids) == 1
RootOf(ps, ids) == IF HomeId \in DOMAIN ids THEN ids[HomeId] ELSE 1

\* byId.get((p.parent || '').trim())
ParentOf(p, ids) ==
    LET key == Trim(IF p.parentRaw = Undef THEN <<>> ELSE p.parentRaw)
    IN  IF key \in DOMAIN ids THEN ids[key] ELSE 0

\* new Set((p.tags || '').split(',').map(s => s.trim()).filter(Boolean))
TagsSetOf(p) ==
    LET parts == SplitChar(IF p.tags = Undef THEN <<>> ELSE p.tags, ",")
        trimmed == [i \in 1..Len(parts) |-> Trim(parts[i])]
    IN  Dedup(SelectSeq(trimmed, LAMBDA t : t # <<>>))

\* (p.title + ' ' + [...p.tagsSet].join(' ') + ' ' + p.content).toLowerCase()
SearchStrOf(p, tagsSet) ==
    ToLower(StrOf(p.title) \o <<SP>> \o Join(tagsSet, <<SP>>) \o <<SP>> \o p.content)

\* One iteration of the linking loop (lines 160-170), for page i whose parent
\* resolves to par and whose tags parse to ts.
LinkPage(ps, i, par, ts) ==
    IF par = 0 \/ par = i
    THEN [ps EXCEPT ![i] = [@ EXCEPT !.parent = par, !.tagsSet = ts,
                                     !.searchStr = SearchStrOf(ps[i], ts),
                                     !.children = IF par = i THEN Append(@, i) ELSE @]]
    ELSE [ps EXCEPT ![i] = [@ EXCEPT !.parent = par, !.tagsSet = ts,
                                     !.searchStr = SearchStrOf(ps[i], ts)],
                    ![par].children = Append(@, i)]

LinkStep(ps, i, r, ids) ==
    LinkPage(ps, i, IF i # r THEN ParentOf(ps[i], ids) ELSE 0, TagsSetOf(ps[i]))

RECURSIVE LinkAll(_, _, _, _)
\* The linking loop (lines 160-170) from page k on.
LinkAll(ps, k, r, ids) ==
    IF Len(ps) < k THEN ps ELSE LinkAll(LinkStep(ps, k, r, ids), k + 1, r, ids)

\* p.sections = sections, unless the scan of this page threw.
IndexPage(before, k, sc) ==
    IF sc.threw THEN [ps |-> before.ps, threw |-> TRUE]
    ELSE [ps |-> [before.ps EXCEPT ![k].sections = sc.sections], threw |-> FALSE]

RECURSIVE IndexAll(_, _)
\* The section loop (lines 173-205) from page k on: the pages, and whether the
\* scan of one of them threw (the pages after it keep no sections).
IndexAll(before, k) ==
    IF before.threw \/ Len(before.ps) < k THEN before
    ELSE IndexAll(IndexPage(before, k, ScanPage(before.ps[k].content)), k + 1)

Parsed(ids, r, ix) == [pages |-> ix.ps, byId |-> ids, root |-> r, threw |-> ix.threw]
Linked(ps0, ids, r) ==
    Parsed(ids, r, IndexAll([ps |-> LinkAll(ps0, 1, r, ids), threw |-> FALSE], 1))
Rooted(ps0, ids) == Linked(ps0, ids, RootOf(ps0, ids))
Pushed(ps0) == Rooted(ps0, Lookup(ps0))

\* The model parseMarkdownBundle leaves behind, and whether it threw.
ParseResult(bs) ==
    IF Len(bs) = 0
    THEN [pages |-> <<>>, byId |-> EmptyMap, root |-> 0, threw |-> TRUE]
    ELSE Pushed(NewPages(bs))

ParseIntoKeepMemo(res) ==
    /\ pages' = res.pages
    /\ byId' = res.byId
    /\ root' = res.root
    /\ descMemo' = descMemo
    /\ pc' = IF res.threw THEN "threw" ELSE "parsed"
ParseInto(res) ==
    /\ pages' = res.pages
    /\ byId' = res.byId
    /\ root' = res.root
    /\ descMemo' = EmptyMap
    /\ pc' = IF res.threw THEN "threw" ELSE "parsed"

Parse ==
    /\ pc = "init"
    /\ ParseInto(ParseResult(bundle))
    /\ UNCHANGED <<bundle, segs, found, hids, query, scored, view, graph, held, routeVars, boxVars>>

(***************************************************************************)
(* descendants and attachSecondaryHomes.                                   *)
(***************************************************************************)
RECURSIVE CountDesc(_, _, _)
\* rec(x): n++ for every child, then the child's own; `fuel` bounds the depth
\* (a tree of n pages is no deeper than n).
CountDesc(ps, i, fuel) ==
    IF fuel = 0 THEN 0
    ELSE LET ch == ps[i].children
             RECURSIVE Sum(_)
             Sum(k) == IF k = 0 THEN 0
                       ELSE Sum(k - 1) + 1 + CountDesc(ps, ch[k], fuel - 1)
         IN  Sum(Len(ch))

\* descendants(page): the value returned and the memo afterwards.
Descendants(ps, memo, i) ==
    IF i \in DOMAIN memo THEN [n |-> memo[i], memo |-> memo]
    ELSE LET n == CountDesc(ps, i, Len(ps))
         IN  [n |-> n, memo |-> [k \in DOMAIN memo \cup {i} |-> IF k = i THEN n ELSE memo[k]]]

RECURSIVE Walk(_, _, _)
\* topOf(p): while (p.parent) p = p.parent.  0 when the walk comes back to a
\* page it has left, which is when the loop of the source never ends.
Walk(ps, i, fuel) ==
    IF ps[i].parent = 0 THEN i
    ELSE IF fuel = 0 THEN 0
    ELSE Walk(ps, ps[i].parent, fuel - 1)

TopOfSelfStops(ps, i) == IF ps[i].parent = i THEN i ELSE Walk(ps, i, Len(ps))
TopOf(ps, i) == Walk(ps, i, Len(ps))

\* The keys of `clusters` in insertion order (lines 226-231).
ClusterTops(ps, r) ==
    LET tops == [i \in 1..Len(ps) |-> TopOf(ps, i)]
    IN  Dedup(SelectSeq(tops, LAMBDA t : t # r))

\* clusters.get(top): the members in bundle order.
Members(ps, top) == SelectSeq([i \in 1..Len(ps) |-> i], LAMBDA i : TopOf(ps, i) = top)

RECURSIVE Reduce(_, _, _, _)
\* members.reduce((a,b) => (descendants(b) > descendants(a) ? b : a), members[0])
\* over the first k members: the representative and the memo.
Reduce(ps, memo, ms, k) ==
    IF k = 0 THEN [rep |-> ms[1], memo |-> memo]
    ELSE LET acc == Reduce(ps, memo, ms, k - 1)
             db  == Descendants(ps, acc.memo, ms[k])
             da  == Descendants(ps, db.memo, acc.rep)
         IN  [rep |-> IF db.n > da.n THEN ms[k] ELSE acc.rep, memo |-> da.memo]

LastMember(ps, memo, ms) == [rep |-> ms[Len(ms)], memo |-> memo]
Representative(ps, memo, ms) == Reduce(ps, memo, ms, Len(ms))

RECURSIVE PromoteInFront(_, _, _, _)
PromoteInFront(ps, r, tops, k) ==
    IF k = 0 THEN [ps |-> ps, memo |-> descMemo, cid |-> 0]
    ELSE LET acc == PromoteInFront(ps, r, tops, k - 1)
             rp  == Representative(acc.ps, acc.memo, Members(ps, tops[k]))
         IN  IF acc.ps[rp.rep].parent = 0
             THEN [ps |-> [acc.ps EXCEPT ![rp.rep].parent = r,
                                         ![rp.rep].isSecondary = TRUE,
                                         ![rp.rep].clusterId = acc.cid,
                                         ![r].children = <<rp.rep>> \o @],
                   memo |-> rp.memo, cid |-> acc.cid + 1]
             ELSE [ps |-> acc.ps, memo |-> rp.memo, cid |-> acc.cid]

RECURSIVE Promote(_, _, _, _)
\* The promotion loop (lines 233-244) over the first k clusters.
Promote(ps, r, tops, k) ==
    IF k = 0 THEN [ps |-> ps, memo |-> descMemo, cid |-> 0]
    ELSE LET acc == Promote(ps, r, tops, k - 1)
             \* the members were collected before any promotion
             rp  == Representative(acc.ps, acc.memo, Members(ps, tops[k]))
         IN  IF acc.ps[rp.rep].parent = 0
             THEN [ps |-> [acc.ps EXCEPT ![rp.rep].parent = r,
                                         ![rp.rep].isSecondary = TRUE,
                                         ![rp.rep].clusterId = acc.cid,
                                         ![r].children = Append(@, rp.rep)],
                   memo |-> rp.memo, cid |-> acc.cid + 1]
             ELSE [ps |-> acc.ps, memo |-> rp.memo, cid |-> acc.cid]

\* Some topOf walk does not end.
Diverges(ps) == \E i \in 1..Len(ps) : TopOf(ps, i) = 0

AttachSecondaryHomes ==
    /\ pc = "parsed"
    /\ IF Diverges(pages)
       THEN /\ pc' = "hung"
            /\ UNCHANGED <<pages, descMemo>>
       ELSE LET tops == ClusterTops(pages, root)
                res  == Promote(pages, root, tops, Len(tops))
            IN  /\ pages' = res.ps
                /\ descMemo' = res.memo
                /\ pc' = "attached"
    /\ UNCHANGED <<bundle, byId, root, segs, found, hids, query, scored, view, graph, held, routeVars, boxVars>>

(***************************************************************************)
(* computeHashes, find.                                                    *)
(***************************************************************************)
RECURSIVE Chain(_, _, _)
\* for (let n = p; n && n.parent; n = n.parent) segs.unshift(n.id)
Chain(ps, i, fuel) ==
    IF i = 0 \/ ps[i].parent = 0 \/ fuel = 0 THEN <<>>
    ELSE Append(Chain(ps, ps[i].parent, fuel - 1), ps[i].id)

\* segs.join('#'): join renders an undefined element as the empty string.
HashOfChain(ids) == Join([k \in 1..Len(ids) |-> JoinStr(ids[k])], <<HASHCH>>)

ComputeHashes ==
    /\ pc = "attached"
    /\ pages' = [i \in 1..Len(pages) |->
                    [pages[i] EXCEPT !.hash = HashOfChain(Chain(pages, i, Len(pages)))]]
    /\ pc' = "ready"
    /\ UNCHANGED <<bundle, byId, root, descMemo, segs, found, hids, query, scored, view, graph, held, routeVars, boxVars>>

\* base ? base.split('#') : []  (route, line 962): the id segments of a hash.
HashSegs(h) == IF h = <<>> THEN <<>> ELSE SplitChar(h, HASHCH)

\* n.children.find(k => k.id === id): the first such child, 0 for undefined.
ChildWithId(ps, n, id) ==
    LET ch == ps[n].children
        ks == {k \in 1..Len(ch) : ps[ch[k]].id = id}
    IN  IF ks = {} THEN 0 ELSE ch[CHOOSE k \in ks : \A j \in ks : k <= j]

RECURSIVE FindFrom(_, _, _)
FindFrom(ps, n, ss) ==
    IF ss = <<>> THEN n
    ELSE LET c == ChildWithId(ps, n, Head(ss))
         IN  IF c = 0 THEN n ELSE FindFrom(ps, c, Tail(ss))

RECURSIVE FindSkipping(_, _, _)
FindSkipping(ps, n, ss) ==
    IF ss = <<>> THEN n
    ELSE LET c == ChildWithId(ps, n, Head(ss))
         IN  FindSkipping(ps, IF c = 0 THEN n ELSE c, Tail(ss))

\* find(segs)
FindPage(ps, r, ss) == FindFrom(ps, r, ss)

\* The levels (1-6) of the heading elements the markdown renderer produces
\* for a page: the heading lines outside fences, in order.
RenderedLevels(content) ==
    LET lines == SplitLines(content)
        heads == SelectSeq([k \in 1..Len(lines) |-> k],
                     LAMBDA k : /\ HeadingMatch(lines[k]) # <<>>
                                /\ Cardinality({j \in 1..(k - 1) : IsFenceLine(lines[j])}) % 2 = 0
                                /\ ~IsFenceLine(lines[k]))
    IN  [k \in 1..Len(heads) |-> HeadingMatch(lines[heads[k]])[1].hashes]

\* render(page) numbers the headings of the rendered page (line 918).
NumberHeadings ==
    /\ pc = "ready"
    /\ \E i \in 1..Len(pages) :
          hids' = <<[page |-> i, ids |-> NumberHeadingIds(RenderedLevels(pages[i].content))]>>
    /\ UNCHANGED <<bundle, pages, byId, root, descMemo, pc, segs, found, query, scored, view, graph, held, routeVars, boxVars>>

(***************************************************************************)
(* search(q).                                                              *)
(***************************************************************************)
\* const W = { title: 5, tag: 3, body: 1, secTitle: 3, secBody: 1,
\*             phraseTitle: 5, phraseBody: 2, secCountCap: 4 }
WTitle == 5
WTag == 3
WBody == 1
WSecTitle == 3
WSecBody == 1
WPhraseTitle == 5
WPhraseBody == 2
WSecPhrase == 1
SecCountCap == 4
\* t.length >= 2
MinTokenLen == 2

\* Before the first buildGraphData() there is no graph data.
NoGraph == [nodes |-> <<>>, links |-> <<>>, adj |-> EmptyMap]

\* The results list and the tree: their display styles and what the list holds.
DefaultView == [results |-> "none", tree |-> "", list |-> "empty"]

\* \b at 0-based position k of s: exactly one of the characters around it is
\* a word character.
Boundary(s, k) ==
    (k >= 1 /\ k <= Len(s) /\ IsWordChar(s[k]))
        # (k + 1 >= 1 /\ k + 1 <= Len(s) /\ IsWordChar(s[k + 1]))

\* The 0-based positions from `from` on where /\btok\b/ matches in s (esc
\* makes tok match literally).
WordMatches(s, tok, from) ==
    {k \in from..Len(s) :
        OccursAt(s, tok, k) /\ Boundary(s, k) /\ Boundary(s, k + Len(tok))}

\* r.test(s) for r = new RegExp('\\b' + esc(tok) + '\\b', 'g') whose lastIndex
\* is `from`: the search starts at lastIndex.
TestHitWholeField(s, tok, from) == from = 0 /\ s = tok
TestHit(s, tok, from) == WordMatches(s, tok, from) # {}

\* r.lastIndex after that call: the end of the match, 0 when there is none.
TestLast(s, tok, from) ==
    IF WordMatches(s, tok, from) = {} THEN 0
    ELSE Len(tok) + CHOOSE k \in WordMatches(s, tok, from) :
                        \A j \in WordMatches(s, tok, from) : k <= j

\* val.split(/\s+/).filter(t => t.length >= 2)
TokensOf(val) == SelectSeq(SplitWs(val), LAMBDA t : Len(t) >= MinTokenLen)

\* tokens.every(tok => text.includes(tok))
HasAll(text, tokens) == \A k \in 1..Len(tokens) : Includes(text, tokens[k])

\* The three tests of one token (lines 621-624), one RegExp object for all.
TokenScore(tok, titleL, tagsL, bodyL) ==
    (IF TestHit(titleL, tok, 0) THEN WTitle ELSE 0)
    + (IF TestHit(tagsL, tok, TestLast(titleL, tok, 0)) THEN WTag ELSE 0)
    + (IF TestHit(bodyL, tok, TestLast(tagsL, tok, TestLast(titleL, tok, 0)))
       THEN WBody ELSE 0)

RECURSIVE TokensScore(_, _, _, _, _)
TokensScore(tokens, k, titleL, tagsL, bodyL) ==
    IF k = 0 THEN 0
    ELSE TokensScore(tokens, k - 1, titleL, tagsL, bodyL)
         + TokenScore(tokens[k], titleL, tagsL, bodyL)

\* if (phrase) { if (titleL.includes(phrase)) ... else if (bodyL.includes(phrase)) ... }
\* phrase is <<>> for null, else <<val>>.
PhraseScore(phrase, titleL, bodyL) ==
    IF phrase = <<>> THEN 0
    ELSE IF Includes(titleL, phrase[1]) THEN WPhraseTitle
    ELSE IF Includes(bodyL, phrase[1]) THEN WPhraseBody
    ELSE 0

\* The two tests of one token against a section (lines 643-645).
SecTokenScore(tok, secTitle, secBody) ==
    (IF TestHit(secTitle, tok, 0) THEN WSecTitle ELSE 0)
    + (IF TestHit(secBody, tok, TestLast(secTitle, tok, 0)) THEN WSecBody ELSE 0)

RECURSIVE SecTokensScore(_, _, _, _)
SecTokensScore(tokens, k, secTitle, secBody) ==
    IF k = 0 THEN 0
    ELSE SecTokensScore(tokens, k - 1, secTitle, secBody)
         + SecTokenScore(tokens[k], secTitle, secBody)

SecScore(sec, tokens, phrase) ==
    SecTokensScore(tokens, Len(tokens), ToLower(sec.txt), ToLower(sec.body))
    + (IF phrase # <<>> /\ (Includes(ToLower(sec.txt), phrase[1])
                             \/ Includes(ToLower(sec.body), phrase[1]))
       THEN WSecPhrase ELSE 0)

RECURSIVE InsertBy(_, _, _)
\* Insert x after every element that is not behind it: a stable sort step.
\* Behind(a, b) says the comparator puts a after b.
InsertBy(Behind(_, _), sorted, x) ==
    IF sorted = <<>> THEN <<x>>
    ELSE IF Behind(sorted[Len(sorted)], x)
         THEN Append(InsertBy(Behind, SubSeq(sorted, 1, Len(sorted) - 1), x),
                     sorted[Len(sorted)])
    ELSE Append(sorted, x)

RECURSIVE SortBy(_, _, _)
\* Array.prototype.sort (stable) of the first k elements.
SortBy(Behind(_, _), xs, k) ==
    IF k = 0 THEN <<>> ELSE InsertBy(Behind, SortBy(Behind, xs, k - 1), xs[k])

\* (a, b) => b.s - a.s
SecBehind(a, b) == b.s > a.s

\* The sections of a page that pass the prefilter, scored, in page order.
MatchedSecsUnsorted(p, tokens, phrase) ==
    LET ks == SelectSeq([k \in 1..Len(p.sections) |-> k],
                        LAMBDA k : HasAll(p.sections[k].search, tokens))
    IN  [j \in 1..Len(ks) |-> [sec |-> ks[j], s |-> SecScore(p.sections[ks[j]], tokens, phrase)]]

\* matchedSecs.sort((a, b) => b.s - a.s)
SortSecs(ms) == SortBy(SecBehind, ms, Len(ms))
MatchedSecs(p, tokens, phrase) == SortSecs(MatchedSecsUnsorted(p, tokens, phrase))

\* The score of a page that passed the prefilter, before the section boost.
FieldScore(p, tokens, phrase) ==
    TokensScore(tokens, Len(tokens), ToLower(p.title),
                ToLower(Join(p.tagsSet, <<SP>>)), ToLower(p.content))
    + PhraseScore(phrase, ToLower(p.title), ToLower(p.content))

\* scored.push({ p, score, matchedSecs })
ScoredEntry(i, p, tokens, phrase, ms) ==
    [p |-> i, score |-> FieldScore(p, tokens, phrase) + Min(SecCountCap, Len(ms)),
     matchedSecs |-> ms]

\* How localeCompare orders two characters: space, digits, letters; a letter
\* before the next letter whatever the case, lower case before upper case.
CharRank(c) ==
    IF LowerChar(c) \in Range(LowerLetters)
    THEN 100 + 2 * (CHOOSE i \in 1..26 : LowerLetters[i] = LowerChar(c))
             + (IF c \in Range(UpperLetters) THEN 1 ELSE 0)
    ELSE IF c \in Range(DigitChars) THEN 50 + CHOOSE i \in 1..10 : DigitChars[i] = c
    ELSE IF c = SP THEN 1
    ELSE 2

RECURSIVE LocaleCompare(_, _)
\* a.localeCompare(b) < 0, = 0, > 0 as -1, 0, 1: the letters decide first,
\* the case only between strings with the same letters.
LocaleCompare(a, b) ==
    LET prim(s) == [i \in 1..Len(s) |-> CharRank(LowerChar(s[i]))]
        RECURSIVE Lex(_, _)
        Lex(x, y) ==
            IF x = <<>> /\ y = <<>> THEN 0
            ELSE IF x = <<>> THEN 0 - 1
            ELSE IF y = <<>> THEN 1
            ELSE IF Head(x) < Head(y) THEN 0 - 1
            ELSE IF Head(x) > Head(y) THEN 1
            ELSE Lex(Tail(x), Tail(y))
    IN  IF Lex(prim(a), prim(b)) # 0 THEN Lex(prim(a), prim(b))
        ELSE Lex([i \in 1..Len(a) |-> CharRank(a[i])], [i \in 1..Len(b) |-> CharRank(b[i])])

\* (a, b) => b.score - a.score || a.p.title.localeCompare(b.p.title)
ScoreOnlyBehind(a, b) == b.score > a.score
ScoredBehind(a, b) ==
    \/ b.score > a.score
    \/ b.score = a.score /\ LocaleCompare(pages[a.p].title, pages[b.p].title) > 0

\* The loop over the pages (lines 608-656): the entries in page order.
ScoredUnsorted(ps, tokens, phrase) ==
    LET ks == SelectSeq([i \in 1..Len(ps) |-> i], LAMBDA i : HasAll(ps[i].searchStr, tokens))
    IN  [j \in 1..Len(ks) |->
            ScoredEntry(ks[j], ps[ks[j]], tokens, phrase, MatchedSecs(ps[ks[j]], tokens, phrase))]

SortScored(xs) == SortBy(ScoredBehind, xs, Len(xs))

\* const phrase = tokens.length > 1 ? val : null
PhraseOf(val, tokens) == IF Len(tokens) > 1 THEN <<val>> ELSE <<>>

\* The scored list of search(q) for a query whose trimmed value is not empty.
ScoredFor(val, tokens) == SortScored(ScoredUnsorted(pages, tokens, PhraseOf(val, tokens)))

\* The rendering (lines 661-683).
ShowResults(list) ==
    /\ scored' = list
    /\ view' = [results |-> "", tree |-> "none",
                list |-> IF list = <<>> THEN "no_result" ELSE "items"]

\* p.title.toLowerCase() (line 613) on a page that passed the prefilter and has
\* no title: a TypeError ends search(q) before anything is rendered.
SearchThrows(ps, tokens) ==
    \E i \in 1..Len(ps) : HasAll(ps[i].searchStr, tokens) /\ ps[i].title = Undef

\* The list as line 599 left it (emptied and shown, the tree hidden) when the
\* scoring loop threw.
ShowNothing ==
    /\ scored' = <<>>
    /\ view' = [results |-> "", tree |-> "none", list |-> "empty"]

\* The scoring and rendering of a non-empty query (lines 598-683).
SearchTokens(val, tokens) ==
    IF SearchThrows(pages, tokens) THEN ShowNothing
    ELSE ShowResults(ScoredFor(val, tokens))

\* if (!val) { resUL.style.display='none'; resUL.innerHTML=''; treeUL.style.display=''; return; }
SearchValNoInactive(val) == SearchTokens(val, TokensOf(val))
SearchVal(val) ==
    IF val = <<>>
    THEN /\ scored' = <<>>
         /\ view' = [results |-> "none", tree |-> "", list |-> "empty"]
    ELSE SearchTokens(val, TokensOf(val))

(***************************************************************************)
(* buildGraphData.                                                         *)
(***************************************************************************)
\* pages.forEach((p,i) => { p._i = i; ... }): every page gets its 0-based index.
Indexed(ps) == [k \in 1..Len(ps) |-> [ps[k] EXCEPT !._i = k - 1]]

\* nodes.push({ id:i, label:p.title, ref:p })
NodesOf(ps) == [k \in 1..Len(ps) |-> [id |-> k - 1, label |-> ps[k].title, ref |-> k]]

\* const tierOf = n => n<3?1 : n<6?2 : n<11?3 : n<21?4 : 5
TierOfInclusive(n) ==
    IF n <= 3 THEN 1 ELSE IF n <= 6 THEN 2 ELSE IF n <= 11 THEN 3 ELSE IF n <= 21 THEN 4 ELSE 5
TierOf(n) ==
    IF n < 3 THEN 1 ELSE IF n < 6 THEN 2 ELSE IF n < 11 THEN 3 ELSE IF n < 21 THEN 4 ELSE 5

\* a < b ? `${a}|${b}` : `${b}|${a}`
PairKey(a, b) ==
    IF a < b THEN NumStr(a) \o <<"|">> \o NumStr(b) ELSE NumStr(b) \o <<"|">> \o NumStr(a)

RECURSIVE NumOf(_)
\* Number(s) for a string of decimal digits.
NumOf(ds) ==
    IF ds = <<>> THEN 0
    ELSE 10 * NumOf(SubSeq(ds, 1, Len(ds) - 1))
         + (CHOOSE d \in 0..9 : DigitChars[d + 1] = ds[Len(ds)])

\* key.split('|').map(Number)
KeyEnds(key) == [k \in 1..Len(SplitChar(key, "|")) |-> NumOf(SplitChar(key, "|")[k])]

\* if (!p.parent) return; if (p.isSecondary && p.parent === root) return;
HierSkipped(ps, r, k) == ps[k].parent = 0 \/ (ps[k].isSecondary /\ ps[k].parent = r)

\* { source:a, target:b, shared:0, kind:'hier', tier: tierOf(descendants(p)) }
\* for page k, n being what descendants(p) returned.
HierLink(ps, k, n) ==
    [source |-> ps[k]._i, target |-> ps[ps[k].parent]._i, shared |-> 0,
     kind |-> "hier", tier |-> TierOf(n)]

RECURSIVE HierLinks(_, _, _, _, _)
\* The loop of lines 759-766 from page k on: the hierarchical links, and the
\* memo afterwards.  descendants(p) answers from the memo when it holds the
\* page (line 210), and counts and memoizes otherwise (lines 211-214).
HierLinks(links, memo, ps, r, k) ==
    IF Len(ps) < k THEN [links |-> links, memo |-> memo]
    ELSE IF HierSkipped(ps, r, k) THEN HierLinks(links, memo, ps, r, k + 1)
    ELSE IF k \in DOMAIN memo
         THEN HierLinks(Append(links, HierLink(ps, k, memo[k])), memo, ps, r, k + 1)
    ELSE HierLinks(Append(links, HierLink(ps, k, Descendants(ps, memo, k).n)),
                   Descendants(ps, memo, k).memo, ps, r, k + 1)

\* hierPairs
HierPairs(links) == {PairKey(links[n].source, links[n].target) : n \in 1..Len(links)}

RECURSIVE AllTags(_, _)
\* The tags of the first k pages in the order the loop of lines 770-775 meets them.
AllTags(ps, k) == IF k = 0 THEN <<>> ELSE AllTags(ps, k - 1) \o ps[k].tagsSet

\* tagToPages.get(t): the indexes of the pages with tag t, in page order.
PagesOfTag(ps, t) ==
    LET ks == SelectSeq([k \in 1..Len(ps) |-> k], LAMBDA k : t \in Range(ps[k].tagsSet))
    IN  [n \in 1..Len(ks) |-> ps[ks[n]]._i]

RECURSIVE PairsOf(_)
\* The keys the loops of lines 778-784 visit for one tag.
PairsOf(arr) ==
    IF Len(arr) < 2 THEN <<>>
    ELSE [y \in 1..(Len(arr) - 1) |-> PairKey(arr[1], arr[y + 1])] \o PairsOf(Tail(arr))

RECURSIVE TagPairs(_, _, _)
\* The keys visited for the first k tags of tagToPages.
TagPairs(ps, tags, k) ==
    IF k = 0 THEN <<>>
    ELSE TagPairs(ps, tags, k - 1) \o PairsOf(PagesOfTag(ps, tags[k]))

\* shared.get(key): how often the key was visited.
SharedCount(visits, key) == Cardinality({n \in 1..Len(visits) : visits[n] = key})

\* The loop of lines 786-791: a tag link for every key of `shared`, in
\* insertion order, that is no hierarchical pair.
TagLinksOf(visits, keys) ==
    [n \in 1..Len(keys) |->
        [source |-> KeyEnds(keys[n])[1], target |-> KeyEnds(keys[n])[2],
         shared |-> SharedCount(visits, keys[n]), kind |-> "tag"]]

TagLinksNoSkip(visits, hier) == TagLinksOf(visits, Dedup(visits))
TagLinks(visits, hier) ==
    TagLinksOf(visits, SelectSeq(Dedup(visits), LAMBDA key : key \notin HierPairs(hier)))

\* touch(a, b) for every link: adj, a map from node index to the set of its
\* neighbours.
AdjOfOneWay(links) ==
    [a \in {links[n].source : n \in 1..Len(links)} |->
        {links[n].target : n \in {m \in 1..Len(links) : links[m].source = a}}]
AdjOf(links) ==
    [a \in {links[n].source : n \in 1..Len(links)} \cup {links[n].target : n \in 1..Len(links)} |->
        {links[n].target : n \in {m \in 1..Len(links) : links[m].source = a}}
        \cup {links[n].source : n \in {m \in 1..Len(links) : links[m].target = a}}]

\* return { nodes, links, adj }
GraphOf(ps, links) == [nodes |-> NodesOf(ps), links |-> links, adj |-> AdjOf(links)]

BuildInto(ps, hier) ==
    /\ pages' = ps
    /\ descMemo' = hier.memo
    /\ graph' = GraphOf(ps, hier.links \o TagLinks(TagPairs(ps, Dedup(AllTags(ps, Len(ps))),
                                                            Len(Dedup(AllTags(ps, Len(ps))))),
                                                   hier.links))

\* buildGraphData(), called by buildGraph (line 804) once the model is built.
BuildGraphData ==
    /\ pc = "ready"
    /\ BuildInto(Indexed(pages), HierLinks(<<>>, descMemo, Indexed(pages), root, 1))
    /\ UNCHANGED <<bundle, byId, root, pc, segs, found, hids, query, scored, view, held, routeVars, boxVars>>

(***************************************************************************)
(* buildTree and breadcrumb sort children lists in place.                  *)
(***************************************************************************)
\* sortByTitle dereferences the titles: it throws on a page without one.
AllTitled(ps) == \A k \in 1..Len(ps) : ps[k].title # Undef

\* p.children.sort(sortByTitle), sortByTitle = (a, b) => a.title.localeCompare(b.title)
SortedChildren(ps, k) ==
    SortBy(LAMBDA a, b : LocaleCompare(ps[a].title, ps[b].title) > 0,
           ps[k].children, Len(ps[k].children))

\* buildTree(): rec sorts, in place, the children list of every folder below
\* root (line 557); root's own list is filtered into copies (lines 540-541).
BuildTree ==
    /\ pc = "ready"
    /\ AllTitled(pages)
    /\ pages' = [k \in 1..Len(pages) |->
                    IF k # root /\ pages[k].children # <<>>
                    THEN [pages[k] EXCEPT !.children = SortedChildren(pages, k)]
                    ELSE pages[k]]
    /\ UNCHANGED <<bundle, byId, root, descMemo, pc, segs, found, hids, query, scored, view,
                   graph, held, routeVars, boxVars>>

\* breadcrumb(page) for the page route found (lines 960-969): line 715 sorts
\* page.children in place.
Breadcrumb ==
    /\ pc = "ready"
    /\ AllTitled(pages)
    /\ \E i \in {FindPage(pages, root, HashSegs(pages[k].hash)) : k \in 1..Len(pages)} :
          pages' = [pages EXCEPT ![i].children = SortedChildren(pages, i)]
    /\ UNCHANGED <<bundle, byId, root, descMemo, pc, segs, found, hids, query, scored, view,
                   graph, held, routeVars, boxVars>>

(***************************************************************************)
(* route and render.                                                       *)
(***************************************************************************)
\* Before the first render nothing decorates the content.
NoDecor == [toc |-> <<>>, copy |-> <<>>, nav |-> 0]

\* A render() is suspended at most MaxRenders deep in the model.
MaxRenders == 2

\* '#' + (base ? base + '#' : '') + id: the href of a section link (buildToc
\* line 396, search line 673, decorateHeadings line 484).
SectionLink(base, id) ==
    <<HASHCH>> \o (IF base # <<>> THEN base \o <<HASHCH>> ELSE <<>>) \o id

\* location.hash.slice(1).split('#').filter(Boolean)
SegsOf(hash) ==
    IF hash = <<>> THEN <<>>
    ELSE SelectSeq(SplitChar(Tail(hash), HASHCH), LAMBDA x : x # <<>>)

\* seg.slice(baseSegs.length).join('#')
AnchorOf(seg, base) == Join(SubSeq(seg, Len(HashSegs(base)) + 1, Len(seg)), <<HASHCH>>)

\* DOC.querySelector('#content pre code') after the markup of `c` was set: a
\* fenced block gives a pre > code element.
HasCode(c) == \E k \in 1..Len(SplitLines(c)) : IsFenceLine(SplitLines(c)[k])

\* /(\$[^$]+\$|\\\(|\\\[)/.test(page.content)
HasMath(c) ==
    \/ \E i, j \in 1..Len(c) :
          /\ i + 1 < j /\ c[i] = "$" /\ c[j] = "$"
          /\ \A k \in (i + 1)..(j - 1) : c[k] # "$"
    \/ \E i \in 1..(Len(c) - 1) : c[i] = "\\" /\ c[i + 1] \in {"(", "["}

\* Every microtask has run: no render waits for a library that has arrived.
Drained == \A k \in 1..Len(renders) : renders[k].at \notin loaded

\* The hrefs a user can follow: the empty hash of the first load, the page
\* links of the tree, and the section links of the search results and of the
\* table of contents.
Hrefs ==
    {<<>>}
    \cup {<<HASHCH>> \o pages[i].hash : i \in 1..Len(pages)}
    \cup UNION {{SectionLink(pages[i].hash, pages[i].sections[n].id) :
                     n \in 1..Len(pages[i].sections)} : i \in 1..Len(pages)}
    \cup Range(decor.toc)

\* route() for the location hash h (lines 957-979). When the page changes,
\* breadcrumb(page) sorts its children in place (line 715) and render(page,
\* anchor) runs up to its first await (line 906).
RouteTo(h, page, anc) ==
    /\ location' = h
    /\ anchor' = anc
    /\ IF currentPage # page
       THEN /\ currentPage' = page
            /\ pages' = [pages EXCEPT ![page].children = SortedChildren(pages, page)]
            /\ renders' = Append(renders, [page |-> page, anchor |-> anc, at |-> "md"])
       ELSE UNCHANGED <<currentPage, pages, renders>>

Route ==
    /\ pc = "ready" /\ root # 0 /\ AllTitled(pages)
    /\ Drained /\ Len(renders) < MaxRenders
    /\ \E h \in Hrefs :
          RouteTo(h, FindPage(pages, root, SegsOf(h)),
                  AnchorOf(SegsOf(h), pages[FindPage(pages, root, SegsOf(h))].hash))
    /\ UNCHANGED <<bundle, byId, root, descMemo, pc, segs, found, hids, query, scored, view,
                   graph, held, contentEl, decor, loaded, boxVars>>

\* The import of a lazily loaded library completes: marked ("md", line 328),
\* highlight.js with its theme ("hl", lines 296, 313), KaTeX ("katex", line 342).
Libs == {"md", "hl", "katex"}
LibLoaded ==
    /\ pc = "ready" /\ Drained
    /\ \E lib \in Libs \ loaded : loaded' = loaded \cup {lib}
    /\ UNCHANGED <<bundle, pages, byId, root, descMemo, pc, segs, found, hids, query, scored,
                   view, graph, held, location, currentPage, anchor, contentEl, decor, renders,
                   boxVars>>

\* The hrefs buildToc(page) gives the h1-h3 headings of #content, and those
\* decorateHeadings(page) gives the copy links of all its headings.
TocOf(page, shown, ids) ==
    LET levels == RenderedLevels(pages[shown].content)
        ks     == SelectSeq([k \in 1..Len(ids) |-> k], LAMBDA k : levels[k] <= 3)
    IN  [j \in 1..Len(ks) |-> SectionLink(pages[page].hash, ids[ks[j]])]
CopyOf(page, ids) == [k \in 1..Len(ids) |-> SectionLink(pages[page].hash, ids[k])]

\* buildToc(page); decorateHeadings(page); decorateCodeBlocks(); prevNext(page);
\* seeAlso(page)  (lines 941-945), on whatever #content holds (page `shown`,
\* heading ids `ids`).
Decorate(page, shown, ids) ==
    [toc |-> TocOf(page, shown, ids), copy |-> CopyOf(page, ids), nav |-> page]

\* renders without its k-th element, and with that element moved to the end
\* of the queue, waiting for library lib.
Without(k) == SubSeq(renders, 1, k - 1) \o SubSeq(renders, k + 1, Len(renders))
Requeued(k, lib) == Append(Without(k), [renders[k] EXCEPT !.at = lib])

\* The rest of render from line 926 on, for the k-th suspended render, with
\* #content holding page `shown` and the heading ids `ids`: wait for KaTeX
\* when the page has math, else decorate and end.
AfterHighlight(k, shown, ids) ==
    IF renders[k].at # "katex" /\ HasMath(pages[renders[k].page].content)
    THEN /\ renders' = Requeued(k, "katex")
         /\ UNCHANGED decor
    ELSE /\ renders' = Without(k)
         /\ decor' = Decorate(renders[k].page, shown, ids)

\* A suspended render resumes once the library it awaits has arrived; those
\* awaiting the same library resume in the order they began to wait.
\* After marked (lines 907-923): the markup of the page replaces #content, its
\* headings are numbered, and a page with code waits for highlight.js.
\* After highlight.js (line 922) and KaTeX (line 928): the library works on
\* whatever #content holds.
Resume ==
    /\ pc = "ready"
    /\ \E k \in 1..Len(renders) :
          /\ renders[k].at \in loaded
          /\ \A j \in 1..(k - 1) : renders[j].at # renders[k].at
          /\ IF renders[k].at = "md"
             THEN LET page == renders[k].page
                      ids  == NumberHeadingIds(RenderedLevels(pages[page].content))
                  IN  /\ contentEl' = page
                      /\ hids' = <<[page |-> page, ids |-> ids]>>
                      /\ IF HasCode(pages[page].content)
                         THEN /\ renders' = Requeued(k, "hl")
                              /\ UNCHANGED decor
                         ELSE AfterHighlight(k, page, ids)
             ELSE /\ AfterHighlight(k, contentEl, hids[1].ids)
                  /\ UNCHANGED <<contentEl, hids>>
    /\ UNCHANGED <<bundle, pages, byId, root, descMemo, pc, segs, found, query, scored, view,
                   graph, held, location, currentPage, anchor, loaded, boxVars>>

(***************************************************************************)
(* The search box (initUI).                                                *)
(***************************************************************************)
\* What a user types into the search input.
Typed == {<<>>, <<"a", "b">>, <<"x">>, <<"c", "d">>}

\* searchInput.oninput (lines 1341-1345): the pending timeout is cleared and a
\* new one is set for search(val).
Input ==
    /\ pc = "ready"
    /\ \E val \in Typed :
          /\ val # box
          /\ box' = val
          /\ timer' = <<val>>
    /\ lastEvent' = "input"
    /\ UNCHANGED <<bundle, pages, byId, root, descMemo, pc, segs, found, hids, query, scored,
                   view, graph, held, routeVars>>

\* The timeout set by oninput expires: search(val).
TimerFires ==
    /\ pc = "ready"
    /\ timer # <<>>
    /\ query' = timer[1]
    /\ SearchVal(ToLower(Trim(timer[1])))
    /\ timer' = <<>>
    /\ UNCHANGED <<bundle, pages, byId, root, descMemo, pc, segs, found, hids, graph, held,
                   routeVars, box, lastEvent>>

\* searchClear.onclick (line 1346), on the button oninput shows while the
\* input is not empty: searchInput.value = ''; search('').
ClearClick ==
    /\ pc = "ready"
    /\ box # <<>>
    /\ box' = <<>>
    /\ query' = <<>>
    /\ SearchVal(ToLower(Trim(<<>>)))
    /\ lastEvent' = "click"
    /\ UNCHANGED <<bundle, pages, byId, root, descMemo, pc, segs, found, hids, graph, held,
                   routeVars, timer>>

(***************************************************************************)
(* The inputs of the model.                                                *)
(***************************************************************************)
IdA == <<"a">>
IdAB == <<"a", HASHCH, "b">>
TitleT == <<"t">>

TreeIds == {HomeId, IdA, IdAB, Undef}
TreeParents == {HomeId, IdA, IdAB, Undef}
TreeBlocks == {[id |-> i, parent |-> p, title |-> TitleT, tags |-> Undef, body |-> <<>>] :
                  i \in TreeIds, p \in TreeParents}
TreeBundles == UNION {[1..n -> TreeBlocks] : n \in 0..MaxPages}

SegPool == {IdA, IdAB}
SegSeqs == UNION {[1..n -> SegPool] : n \in 0..MaxSegs}

\* find(segs), as route calls it with the segments of a location hash.
Find ==
    /\ pc = "ready"
    /\ \E s \in SegSeqs \cup {HashSegs(pages[i].hash) : i \in 1..Len(pages)} :
          /\ segs' = s
          /\ found' = FindPage(pages, root, s)
    /\ UNCHANGED <<bundle, pages, byId, root, descMemo, pc, hids, query, scored, view, graph, held, routeVars, boxVars>>

\* search(q), as the search box calls it once the model is built.
StrAb == <<"a", "b">>
StrCdAb == <<"C", "d", SP, "a", "b">>
StrAbx == <<"a", "b", "x">>
StrAbCd == <<"a", "b", SP, "c", "d">>
SearchTitles == {StrAb, StrCdAb, StrAbx}
SearchTags == {Undef, StrAb, <<"c", "d", ",", SP, "a", "b">>}
SearchBodies == {<<>>, StrAbCd, StrAbx,
                 <<HASHCH, SP, "a", "b", LF, "c", "d", SP, "a", "b", LF,
                   HASHCH, HASHCH, SP, "c", "d", LF, "x">>}
SearchIds == <<HomeId, IdA, IdAB, <<"c">>>>
SearchBundles ==
    UNION {{[k \in 1..n |-> [id |-> SearchIds[k],
                             parent |-> IF k = 1 THEN Undef ELSE HomeId,
                             title |-> f[k][1], tags |-> f[k][2], body |-> f[k][3]]] :
               f \in [1..n -> SearchTitles \X SearchTags \X SearchBodies]} :
           n \in 1..MaxSearchPages}
Queries == {<<>>, <<SP>>, <<"a">>, <<"a", SP, "x">>, StrAb, <<"c", "d">>, StrAbCd,
            <<"A", "B", SP, SP, "c", "d", SP>>}

Search ==
    /\ pc = "ready"
    /\ \E q \in Queries :
          /\ query' = q
          /\ SearchVal(ToLower(Trim(q)))
    /\ UNCHANGED <<bundle, pages, byId, root, descMemo, pc, segs, found, hids, graph, held, routeVars, boxVars>>

InitRest ==
    /\ pages = <<>>
    /\ byId = EmptyMap
    /\ root = 0
    /\ descMemo = EmptyMap
    /\ pc = "init"
    /\ segs = <<>>
    /\ found = 0
    /\ hids = <<>>
    /\ query = <<>>
    /\ scored = <<>>
    /\ view = DefaultView
    /\ graph = NoGraph
    /\ held = <<>>
    /\ location = <<>>
    /\ currentPage = 0
    /\ anchor = <<>>
    /\ contentEl = 0
    /\ decor = NoDecor
    /\ renders = <<>>
    /\ loaded = {}
    /\ box = <<>>
    /\ timer = <<>>
    /\ lastEvent = "none"

Init == bundle \in TreeBundles /\ InitRest
Next == Parse \/ AttachSecondaryHomes \/ ComputeHashes \/ Find
Spec == Init /\ [][Next]_vars

(***************************************************************************)
(* The heading scan is checked on one-page bundles whose body is a few     *)
(* lines, joined by LF or by CRLF.                                         *)
(***************************************************************************)
LineH1 == <<HASHCH, SP, "x">>
LineH2 == <<HASHCH, HASHCH, SP, "y">>
LineH3 == <<HASHCH, HASHCH, HASHCH, SP, "z">>
LineH6 == <<HASHCH, HASHCH, HASHCH, HASHCH, HASHCH, HASHCH, SP, "w">>
LineH7 == <<HASHCH, HASHCH, HASHCH, HASHCH, HASHCH, HASHCH, HASHCH, SP, "v">>
LineBare == <<HASHCH, SP>>
LineFenceBQ == <<BQ, BQ, BQ>>
LineFenceTilde == <<TILDE, TILDE, TILDE, "j", "s">>
LineText == <<"x">>

LinePool == {LineH1, LineH2, LineH3, LineH6, LineH7, LineBare,
             LineFenceBQ, LineFenceTilde, LineText}
LineSeqs == UNION {[1..n -> LinePool] : n \in 1..MaxLines}
HeadBodies == {Join(ls, sep) : ls \in LineSeqs, sep \in {<<LF>>, <<CR, LF>>}}
HeadBundles == {<<>>} \cup
    {<<[id |-> HomeId, parent |-> Undef, title |-> TitleT, tags |-> Undef, body |-> b]>> :
        b \in HeadBodies}

InitHead == bundle \in HeadBundles /\ InitRest
NextHead == Parse \/ AttachSecondaryHomes \/ ComputeHashes \/ NumberHeadings
SpecHead == InitHead /\ [][NextHead]_vars

InitSearch == bundle \in SearchBundles /\ InitRest
NextSearch == Parse \/ AttachSecondaryHomes \/ ComputeHashes \/ Search
SpecSearch == InitSearch /\ [][NextSearch]_vars

(***************************************************************************)
(* The ranking is checked on bundles of a few pages drawn from a pool of   *)
(* title / tags / body triples: titles with and without the tokens of the  *)
(* queries, tokens in tags only, tokens inside longer words, bodies with   *)
(* several sections, and a page without a title.                           *)
(***************************************************************************)
MaxRankPages == 2
StrAbab == <<"a", "b", "a", "b">>
StrAbAb == <<"a", "b", SP, "a", "b">>
StrXAb == <<"x", SP, "a", "b">>
StrAbX == <<"a", "b", SP, "x">>
StrXabCdy == <<"x", "a", "b", SP, "c", "d", "y">>
StrAbXCd == <<"a", "b", SP, "x", SP, "c", "d">>
StrUpperAb == <<"A", "B">>
\* Four sections, each holding both tokens apart / the token inside a word.
FourTimes(line) == line \o <<LF>> \o line \o <<LF>> \o line \o <<LF>> \o line
BodyFourAbCd == FourTimes(<<HASHCH, SP>> \o StrAbXCd)
BodyFourAbx == FourTimes(<<HASHCH, SP>> \o StrAbx)
BodyTwoSecs == <<HASHCH, SP, "x", LF, "a", "b", LF, HASHCH, SP, "a", "b">>
RankPool ==
    {<<StrAb, Undef, <<>>>>, <<StrAbab, Undef, <<>>>>, <<StrAbAb, Undef, <<>>>>,
     <<StrUpperAb, Undef, <<>>>>,
     <<<<"x">>, StrAb, StrAb>>, <<StrXAb, StrAb, StrAb>>, <<StrAbX, StrAb, StrAb>>,
     <<StrXabCdy, Undef, <<>>>>, <<StrAbCd, Undef, <<>>>>,
     <<TitleT, Undef, BodyFourAbCd>>, <<TitleT, Undef, StrAbXCd>>,
     <<TitleT, StrAb, <<>>>>,
     <<<<"u">>, Undef, BodyFourAbx>>, <<StrAbx, Undef, <<>>>>,
     <<Undef, Undef, StrAb>>,
     <<StrCdAb, Undef, BodyTwoSecs>>}
RankBundles ==
    UNION {{[k \in 1..n |-> [id |-> SearchIds[k],
                             parent |-> IF k = 1 THEN Undef ELSE HomeId,
                             title |-> f[k][1], tags |-> f[k][2], body |-> f[k][3]]] :
               f \in [1..n -> RankPool]} :
           n \in 1..MaxRankPages}
InitRank == bundle \in RankBundles /\ InitRest
NextRank == Parse \/ AttachSecondaryHomes \/ ComputeHashes \/ Search
SpecRank == InitRank /\ [][NextRank]_vars

(***************************************************************************)
(* The operations on a built model are checked on small trees whose        *)
(* pages have distinct ids, a title and no tags, on stars (a page with     *)
(* many children, for the tiers) and on a bundle whose heading scan        *)
(* throws; parseMarkdownBundle may be called again on a built model, the   *)
(* boot sequence then running anew.                                        *)
(***************************************************************************)
MaxOpsPages == 4
OpsIds == <<HomeId, IdA, <<"b">>, <<"c">>, <<"d">>>>
OpsParents == {Undef, HomeId, IdA}
OpsTitles == {<<"s">>, TitleT}
OpsBundles ==
    UNION {{[k \in 1..n |-> [id |-> OpsIds[k], parent |-> f[k][1], title |-> f[k][2],
                             tags |-> Undef, body |-> <<>>]] :
               f \in [1..n -> OpsParents \X OpsTitles]} :
           n \in 1..MaxOpsPages}

\* home, its child a, n pages below a, and an orphan: the first Fan of the n
\* pages are children of a, the others are shared out among these.
Fan == 4
StarSizes == {2, 3, 5, 6, 10, 11, 20, 21}
StarId(k) == IF k = 1 THEN HomeId ELSE IF k = 2 THEN IdA ELSE <<"n">> \o NumStr(k)
StarBlock(k, n) ==
    [id |-> StarId(k),
     parent |-> IF k = 1 \/ k = n + 3 THEN Undef
                ELSE IF k = 2 THEN HomeId
                ELSE IF k <= Fan + 2 THEN IdA
                ELSE StarId(3 + ((k - 3) % Fan)),
     title |-> TitleT, tags |-> Undef, body |-> <<>>]
StarBundle(n) == [k \in 1..(n + 3) |-> StarBlock(k, n)]
StarBundles == {StarBundle(n) : n \in StarSizes}

\* A page, then a page whose body starts with a line that is a heading marker
\* followed by white space only.
BareBundle ==
    <<[id |-> HomeId, parent |-> Undef, title |-> TitleT, tags |-> Undef, body |-> <<>>],
      [id |-> IdA, parent |-> HomeId, title |-> TitleT, tags |-> Undef,
       body |-> LineBare \o <<LF>> \o LineText]>>
\* A page with a child and a grandchild, and an orphan; three share a tag.
SmallBundle ==
    <<[id |-> HomeId, parent |-> Undef, title |-> TitleT, tags |-> Undef, body |-> <<>>],
      [id |-> IdA, parent |-> HomeId, title |-> TitleT, tags |-> <<"x">>, body |-> <<>>],
      [id |-> <<"b">>, parent |-> IdA, title |-> TitleT, tags |-> <<"x">>, body |-> <<>>],
      [id |-> <<"c">>, parent |-> Undef, title |-> TitleT, tags |-> <<"x">>, body |-> <<>>]>>
ReparseBundles == {<<>>, BareBundle, SmallBundle}

\* What the objects a reader holds contain after lines 141-144: pages and byId
\* are bound to new objects and root to null, the old objects are left alone;
\* descMemo is one Map for the life of the program and is cleared in place.
HeldAfterReset(ps, ids, r, memo) ==
    <<[was |-> [pages |-> ps, byId |-> ids, root |-> r, descMemo |-> memo],
       now |-> [pages |-> ps, byId |-> ids, root |-> r, descMemo |-> EmptyMap]]>>

\* parseMarkdownBundle(txt) on a program that holds a model (or the rest of a
\* parse that threw).
Reparse ==
    /\ pc \in {"ready", "threw"}
    /\ \E b \in ReparseBundles :
          /\ bundle' = b
          /\ ParseInto(ParseResult(b))
    /\ held' = HeldAfterReset(pages, byId, root, descMemo)
    /\ UNCHANGED <<segs, found, hids, query, scored, view, graph, routeVars, boxVars>>

InitOps == bundle \in OpsBundles \cup StarBundles \cup {BareBundle} /\ InitRest
NextOps ==
    \/ Parse
    \/ AttachSecondaryHomes
    \/ ComputeHashes
    \/ BuildGraphData
    \/ BuildTree
    \/ Breadcrumb
    \/ Reparse
SpecOps == InitOps /\ [][NextOps]_vars

(***************************************************************************)
(* The router and the renderer are checked on bundles of up to three pages *)
(* whose ids include ones of the form of a section id, and whose bodies    *)
(* hold headings, a fenced block or math.                                  *)
(***************************************************************************)
IdOne == <<"1">>
IdOneOne == <<"1", "_", "1">>
BodyTwoHeads == LineH1 \o <<LF>> \o LineH2
BodyCode == LineH1 \o <<LF>> \o LineFenceBQ \o <<LF>> \o LineText \o <<LF>> \o LineFenceBQ
BodyMath == <<"$", "x", "$">>
RouteBodies == {LineH1, BodyTwoHeads, BodyCode, BodyMath}
\* The id / parent pairs of the second and of the third page.
RoutePool ==
    <<{<<HomeId, Undef>>},
      {<<IdA, HomeId>>, <<IdOne, HomeId>>},
      {<<IdOne, HomeId>>, <<IdOne, IdA>>, <<IdOneOne, HomeId>>, <<IdOneOne, IdA>>}>>
RoutePairs == UNION {RoutePool[k] : k \in 1..Len(RoutePool)}
RouteHeads(n) == {g \in [1..n -> RoutePairs] : \A k \in 1..n : g[k] \in RoutePool[k]}
RouteBundles ==
    UNION {{[k \in 1..n |-> [id |-> g[k][1], parent |-> g[k][2], title |-> TitleT,
                             tags |-> Undef, body |-> b[k]]] :
               g \in RouteHeads(n), b \in [1..n -> RouteBodies]} :
           n \in 1..Len(RoutePool)}
InitRoute == bundle \in RouteBundles /\ InitRest
NextRoute ==
    \/ Parse
    \/ AttachSecondaryHomes
    \/ ComputeHashes
    \/ Route
    \/ LibLoaded
    \/ Resume
SpecRoute == InitRoute /\ [][NextRoute]_vars

(***************************************************************************)
(* The search box is checked on the bundles of the search.                 *)
(***************************************************************************)
InitBox == bundle \in SearchBundles /\ InitRest
NextBox ==
    \/ Parse
    \/ AttachSecondaryHomes
    \/ ComputeHashes
    \/ Input
    \/ TimerFires
    \/ ClearClick
SpecBox == InitBox /\ [][NextBox]_vars

(***************************************************************************)
(* The graph is checked on bundles whose pages have distinct ids and tag   *)
(* lists that overlap, repeat a tag and carry white space.                 *)
(***************************************************************************)
MaxGraphPages == 3
GraphTags == {Undef, <<"x">>, <<"y">>, <<"y", ",", SP, "x", ",", "x">>}
GraphBundles(n) ==
    {[k \in 1..n |-> [id |-> OpsIds[k], parent |-> f[k][1], title |-> TitleT,
                      tags |-> f[k][2], body |-> <<>>]] :
        f \in [1..n -> OpsParents \X GraphTags]}
InitGraph == bundle \in UNION {GraphBundles(n) : n \in 1..MaxGraphPages} /\ InitRest
NextGraph == Parse \/ AttachSecondaryHomes \/ ComputeHashes \/ BuildGraphData
SpecGraph == InitGraph /\ [][NextGraph]_vars

(***************************************************************************)
(* Properties.                                                             *)
(***************************************************************************)
Booted == pc \in {"attached", "ready"}
PageIds == 1..Len(pages)

\* Every page has a defined id and the ids are pairwise distinct.
ValidBundle ==
    \A i \in PageIds :
        /\ pages[i].id # Undef
        /\ \A j \in PageIds : i # j => pages[i].id # pages[j].id

\* C1: for a valid bundle, once parse, promotion and computeHashes have run,
\* find on the id segments of a non-root page's hash returns that page, and
\* the root's hash is empty.
C1_PathResolves ==
    (pc = "ready" /\ ValidBundle /\ found # 0) =>
        /\ pages[root].hash = <<>>
        /\ \A i \in PageIds \ {root} : segs = HashSegs(pages[i].hash) => found = i

RECURSIVE ReachFrom(_, _, _)
\* The pages reached from `set` by following children links.
ReachFrom(ps, set, fuel) ==
    IF fuel = 0 THEN set
    ELSE ReachFrom(ps, set \cup UNION {Range(ps[i].children) : i \in set}, fuel - 1)

\* C2: after attachSecondaryHomes every page is reachable from root by
\* following children links.
C2_AllReachable ==
    Booted => ReachFrom(pages, {root}, Len(pages)) = PageIds

C2_Witness ==
    /\ pc = "attached"
    /\ \E i \in PageIds : pages[i].isSecondary /\ pages[i].children # <<>>

\* The pages with the promotion flag and parent = root.
Promoted == {i \in PageIds : pages[i].isSecondary /\ pages[i].parent = root}
\* In the model ps0 (the pages before any promotion): the disconnected
\* clusters, named by their topmost ancestors other than root.
ClusterTopSet(ps0) == {TopOf(ps0, i) : i \in 1..Len(ps0)} \ {root}
ClusterOf(ps0, t) == {i \in 1..Len(ps0) : TopOf(ps0, i) = t}
\* i has the largest descendants() count of the set, the first such in bundle order.
FirstLargest(ps0, i, set) ==
    \A j \in set :
        /\ CountDesc(ps0, j, Len(ps0)) <= CountDesc(ps0, i, Len(ps0))
        /\ CountDesc(ps0, j, Len(ps0)) = CountDesc(ps0, i, Len(ps0)) => i <= j
OnePerCluster(ps0) ==
    /\ Cardinality(Promoted) = Cardinality(ClusterTopSet(ps0))
    /\ \A t \in ClusterTopSet(ps0) :
          \E i \in Promoted : i \in ClusterOf(ps0, t) /\ FirstLargest(ps0, i, ClusterOf(ps0, t))

C4_FindTolerant ==
    (pc = "ready" /\ found # 0) =>
        /\ found \in PageIds
        /\ TopOf(pages, found) = root
        /\ LET path == Chain(pages, found, Len(pages))
           IN  /\ Len(path) <= Len(segs)
               /\ path = SubSeq(segs, 1, Len(path))
               /\ Len(path) < Len(segs) =>
                     \A c \in Range(pages[found].children) :
                         pages[c].id # segs[Len(path) + 1]

C4_Witness ==
    /\ pc = "ready"
    /\ found \notin {0, root}
    /\ Len(Chain(pages, found, Len(pages))) < Len(segs)

\* C5: parseMarkdownBundle raises an error exactly when the bundle holds no
\* metadata block.
C5_ThrowsOnlyWithoutBlocks ==
    pc # "init" => (pc = "threw" <=> Len(bundle) = 0)

\* C6: within a page no two sections have the same local id.
C6_SectionIdsUnique ==
    pc \in {"parsed", "attached", "ready"} =>
        \A i \in PageIds :
            \A a, b \in 1..Len(pages[i].sections) :
                a # b => pages[i].sections[a].id # pages[i].sections[b].id

\* The lines of page i, and whether line k lies inside a fence: an odd number
\* of fence-toggle lines comes before it.
LinesOf(i) == SplitLines(pages[i].content)
InsideFence(i, k) ==
    /\ ~IsFenceLine(LinesOf(i)[k])
    /\ Cardinality({j \in 1..(k - 1) : IsFenceLine(LinesOf(i)[j])}) % 2 = 1
\* 1-6 '#' then white space.
HasHeadingMarker(line) ==
    \E h \in 1..MaxHashes :
        /\ Len(line) > h
        /\ \A j \in 1..h : line[j] = HASHCH
        /\ IsSpace(line[h + 1])

\* C7: a line with a heading marker inside a fence leaves the counters, the
\* pending section and the sections as they were; the sections of a page are
\* as many as its heading-marker lines outside fences.
C7_FenceAware ==
    pc \in {"parsed", "attached", "ready"} =>
        \A i \in PageIds :
            /\ \A k \in 1..Len(LinesOf(i)) :
                  (HasHeadingMarker(LinesOf(i)[k]) /\ InsideFence(i, k)) =>
                      LET before == ScanPrefix(pages[i].content, k - 1)
                          after  == ScanPrefix(pages[i].content, k)
                      IN  /\ after.counters = before.counters
                          /\ after.sections = before.sections
                          /\ after.prev = before.prev
            /\ Len(pages[i].sections) =
                  Cardinality({k \in 1..Len(LinesOf(i)) :
                                  HasHeadingMarker(LinesOf(i)[k]) /\ ~InsideFence(i, k)})

C7_Witness ==
    /\ pc = "parsed"
    /\ \E k \in 1..Len(LinesOf(1)) : HasHeadingMarker(LinesOf(1)[k]) /\ InsideFence(1, k)
    /\ Len(pages[1].sections) >= 1

C9_RootInvariant ==
    pc \in {"parsed", "hung", "attached", "ready"} =>
        /\ root \in PageIds
        /\ IF \E i \in PageIds : pages[i].id = HomeId
           THEN pages[root].id = HomeId
           ELSE root = 1
        /\ pages[root].parent = 0
        /\ \A j \in PageIds : root \notin Range(pages[j].children)

C9_Witness ==
    /\ pc = "ready"
    /\ root # 1
    /\ \E i \in PageIds : pages[i].isSecondary

\* The query of the last search, as search reads it.
QueryVal == ToLower(Trim(query))
QueryTokens == TokensOf(QueryVal)
\* A whole-word match of tok exists in s.
WholeWord(s, tok) ==
    \E k \in 0..Len(s) : OccursAt(s, tok, k) /\ Boundary(s, k) /\ Boundary(s, k + Len(tok))
\* The weights of the fields of page p in which tok has a whole-word match,
\* each field on its own.
IndependentTokenScore(p, tok) ==
    (IF WholeWord(ToLower(p.title), tok) THEN WTitle ELSE 0)
    + (IF WholeWord(ToLower(Join(p.tagsSet, <<SP>>)), tok) THEN WTag ELSE 0)
    + (IF WholeWord(ToLower(p.content), tok) THEN WBody ELSE 0)
RECURSIVE SumTokens(_, _)
SumTokens(p, k) ==
    IF k = 0 THEN 0 ELSE SumTokens(p, k - 1) + IndependentTokenScore(p, QueryTokens[k])
QualifyingSections(p) ==
    {k \in 1..Len(p.sections) : HasAll(p.sections[k].search, QueryTokens)}
ClaimedScore(p) ==
    SumTokens(p, Len(QueryTokens))
    + (IF Len(QueryTokens) > 1
       THEN IF Includes(ToLower(p.title), QueryVal) THEN WPhraseTitle
            ELSE IF Includes(ToLower(p.content), QueryVal) THEN WPhraseBody ELSE 0
       ELSE 0)
    + Min(SecCountCap, Cardinality(QualifyingSections(p)))

\* C10: the total score of every listed page is, per token, 5 for a whole-word
\* match in the title plus 3 for one in the joined tags plus 1 for one in the
\* body, each field judged on its own; plus the phrase bonus; plus the number
\* of qualifying sections, at most 4.
C10_ScoreFormula ==
    \A e \in 1..Len(scored) : scored[e].score = ClaimedScore(pages[scored[e].p])

(***************************************************************************)
(* Properties of the ranking.                                              *)
(***************************************************************************)
\* Page i is listed by the last search, and the entry that lists it.
Listed(i) == \E e \in 1..Len(scored) : scored[e].p = i
RankOf(i) == CHOOSE e \in 1..Len(scored) : scored[e].p = i
ScoreAt(i) == scored[RankOf(i)].score
\* Pages i and j differ in their titles only.
SameButTitle(i, j) ==
    /\ pages[i].tags = pages[j].tags
    /\ pages[i].content = pages[j].content
\* t is s with tok put in at some position.
Inserted(t, s, tok) ==
    \E k \in 0..Len(s) : t = SubSeq(s, 1, k) \o tok \o SubSeq(s, k + 1, Len(s))
\* t is s with tok added as a word of its own at the start or at the end.
AddedWord(t, s, tok) == t = tok \o <<SP>> \o s \/ t = s \o <<SP>> \o tok

TwoTokenQuery ==
    /\ Len(QueryTokens) = 2
    /\ QueryVal = QueryTokens[1] \o <<SP>> \o QueryTokens[2]
\* Both tokens occur in page j in the body only, as whole words, and not as
\* the phrase.
InBodyOnlyApart(j) ==
    /\ \A k \in 1..Len(QueryTokens) :
          /\ ~Includes(ToLower(pages[j].title), QueryTokens[k])
          /\ ~Includes(ToLower(Join(pages[j].tagsSet, <<SP>>)), QueryTokens[k])
          /\ WholeWord(ToLower(pages[j].content), QueryTokens[k])
    /\ ~Includes(ToLower(pages[j].content), QueryVal)

\* C12: for a two-token query "a b" a page whose title contains "a b" scores
\* at least as high as a page in which a and b occur only in the body, as
\* separate non-adjacent words, whatever the sections of either page.
C12_PhraseTitleWins ==
    TwoTokenQuery =>
        \A i, j \in PageIds :
            (Listed(i) /\ Listed(j)
             /\ Includes(ToLower(pages[i].title), QueryVal) /\ InBodyOnlyApart(j))
            => ScoreAt(i) >= ScoreAt(j)

\* Token tok is one of the tags of page i and occurs neither in its title nor
\* in its body.
OnlyWholeTag(i, tok) ==
    /\ tok \in {ToLower(pages[i].tagsSet[k]) : k \in 1..Len(pages[i].tagsSet)}
    /\ ~Includes(ToLower(pages[i].title), tok)
    /\ ~Includes(ToLower(pages[i].content), tok)
\* Token tok occurs in page j, and only inside longer words.
OnlyInsideWords(j, tok) ==
    /\ Includes(pages[j].searchStr, tok)
    /\ ~WholeWord(ToLower(pages[j].title), tok)
    /\ ~WholeWord(ToLower(Join(pages[j].tagsSet, <<SP>>)), tok)
    /\ ~WholeWord(ToLower(pages[j].content), tok)

\* C13: for a single-token query t a page with t only as a whole tag is listed
\* above every page in which t appears only inside a longer word.
C13_TagAboveSubstring ==
    Len(QueryTokens) = 1 =>
        \A i, j \in PageIds :
            (Listed(i) /\ Listed(j)
             /\ OnlyWholeTag(i, QueryTokens[1]) /\ OnlyInsideWords(j, QueryTokens[1]))
            => RankOf(i) < RankOf(j)

\* C14: after search(q) with a non-empty trimmed q a page is listed if and only
\* if every query token is a substring of its search string, and the matched
\* sections of a listed page are exactly its sections whose search text holds
\* every token.
C14_ListedIffPrefilter ==
    QueryVal # <<>> =>
        \A i \in PageIds :
            /\ Listed(i) <=> HasAll(pages[i].searchStr, QueryTokens)
            /\ Listed(i) =>
                  {scored[RankOf(i)].matchedSecs[m].sec :
                      m \in 1..Len(scored[RankOf(i)].matchedSecs)}
                  = QualifyingSections(pages[i])

\* The place of a character in the alphabet, whatever its case: the space
\* first, then the digits, then the letters.
FoldedRank(c) ==
    IF LowerChar(c) \in Range(LowerLetters)
    THEN 20 + CHOOSE i \in 1..26 : LowerLetters[i] = LowerChar(c)
    ELSE IF c \in Range(DigitChars) THEN 2 + CHOOSE i \in 1..10 : DigitChars[i] = c
    ELSE IF c = SP THEN 1
    ELSE 2
RECURSIVE FoldedLeq(_, _)
\* a comes no later than b in case-insensitive lexicographic order.
FoldedLeq(a, b) ==
    IF a = <<>> THEN TRUE
    ELSE IF b = <<>> THEN FALSE
    ELSE IF FoldedRank(Head(a)) < FoldedRank(Head(b)) THEN TRUE
    ELSE IF FoldedRank(Head(a)) > FoldedRank(Head(b)) THEN FALSE
    ELSE FoldedLeq(Tail(a), Tail(b))

\* C15: the results are listed in descending total score, pages with equal
\* score in case-insensitive lexicographic title order, and the sections of
\* each listed page in descending section score.
C15_Ordering ==
    /\ \A e \in 1..(Len(scored) - 1) :
          /\ scored[e].score >= scored[e + 1].score
          /\ scored[e].score = scored[e + 1].score =>
                FoldedLeq(pages[scored[e].p].title, pages[scored[e + 1].p].title)
    /\ \A e \in 1..Len(scored) :
          \A m \in 1..(Len(scored[e].matchedSecs) - 1) :
              scored[e].matchedSecs[m].s >= scored[e].matchedSecs[m + 1].s

C15_Witness ==
    /\ Len(scored) = 2
    /\ scored[1].score = scored[2].score
    /\ scored[1].p = 2
    /\ pages[1].title # pages[2].title
    /\ ToLower(pages[1].title) # ToLower(pages[2].title)

\* The two outcomes: the inactive search, and the list holding "No result".
InactiveView == [results |-> "none", tree |-> "", list |-> "empty"]
NoResultView == [results |-> "", tree |-> "none", list |-> "no_result"]

\* C16: search(q) with an empty or white-space q leaves the results list
\* emptied and hidden and the tree shown; a non-empty query never ends in that
\* state, and one that no page matches shows the list holding only "No result"
\* with the tree hidden.
C16_InactiveDistinct ==
    /\ QueryVal = <<>> => view = InactiveView /\ scored = <<>>
    /\ QueryVal # <<>> => view # InactiveView
    /\ (QueryVal # <<>> /\ \A i \in PageIds : ~HasAll(pages[i].searchStr, QueryTokens))
          => view = NoResultView

C16_Witness ==
    /\ query = <<SP>>
    /\ view = InactiveView
    /\ pc = "ready"

(***************************************************************************)
(* Properties of the operations on a built model.                          *)
(***************************************************************************)
\* C17: once parse, promotion and path assignment are done, no operation
\* other than a re-parse changes a page: no field is added or changed, and no
\* children list is reordered.
C17_PagesFrozen == [][(pc = "ready" /\ pc' = "ready") => pages' = pages]_vars

\* The pages, children lists and lookup table a reader obtained before the
\* last re-parse are as they were.
OldModelKept ==
    /\ held[1].now.pages = held[1].was.pages
    /\ held[1].now.byId = held[1].was.byId

\* The four variables of the model all come from the current bundle.
SameBundle ==
    /\ Len(pages) = Len(bundle)
    /\ \A i \in PageIds : pages[i].id = MetaVal(bundle[i].id)
    /\ byId = ParseResult(bundle).byId
    /\ root = ParseResult(bundle).root
    /\ DOMAIN descMemo \subseteq PageIds

\* Every page of the model went through the whole pipeline.
FullyBuilt == \A i \in PageIds : pages[i].hash # Undef

\* C18: after a re-parse, wherever other code can run (the pipeline has
\* finished or has thrown), pages, byId, root and descMemo all belong to the
\* new bundle and form a completely built model, and the model held from
\* before the re-parse has not been mutated.
C18_AtomicReplace ==
    (held # <<>> /\ pc \in {"ready", "threw"}) => (OldModelKept /\ SameBundle /\ FullyBuilt)

\* C19: every memoized count is the number of transitive children the page
\* has in the current model, in every state of the pipeline, of graph
\* building and of a re-parse, so descendants(page) returns that number
\* whether it computes it or reads the memo.
C19_MemoFresh ==
    \A i \in DOMAIN descMemo :
        /\ i \in PageIds
        /\ descMemo[i] = CountDesc(pages, i, Len(pages))
        /\ Descendants(pages, descMemo, i).n = CountDesc(pages, i, Len(pages))

\* After a re-parse, promotion and graph building on the new model, the memo
\* holds the count of a page with descendants.
C19_Witness ==
    /\ held # <<>>
    /\ pc = "ready"
    /\ \E i \in PageIds : pages[i].isSecondary /\ pages[i]._i # NoIndex
    /\ \E i \in DOMAIN descMemo : descMemo[i] >= 1

\* The hierarchical links of the graph, in the order they were pushed.
HierOfGraph == SelectSeq(graph.links, LAMBDA l : l.kind = "hier")

\* buildGraphData has run on the current model.
GraphIsCurrent == pc = "ready" /\ pages # <<>> /\ pages[1]._i # NoIndex

\* Tier 1, 2, 3, 4 or 5 for a count below 3, below 6, below 11, below 21, or
\* 21 and above.
ClaimedTier(n) == 1 + Cardinality({t \in {3, 6, 11, 21} : n >= t})

\* The number of hierarchical links a page is to have.
ClaimedLinks(p) == IF p.parent # 0 /\ ~(p.isSecondary /\ p.parent = root) THEN 1 ELSE 0

\* C20: the graph holds exactly one hierarchical link for each page with a
\* parent, none for a promoted page under root and none for a page without
\* parent; the link goes from the page to its parent and its tier follows the
\* page's descendant count by the thresholds 3, 6, 11 and 21.
C20_HierLinks ==
    GraphIsCurrent =>
        /\ \A i \in PageIds :
              Cardinality({n \in DOMAIN HierOfGraph : HierOfGraph[n].source = i - 1})
                  = ClaimedLinks(pages[i])
        /\ \A n \in DOMAIN HierOfGraph :
              /\ HierOfGraph[n].source + 1 \in PageIds
              /\ HierOfGraph[n].target = pages[HierOfGraph[n].source + 1].parent - 1
              /\ HierOfGraph[n].tier =
                     ClaimedTier(CountDesc(pages, HierOfGraph[n].source + 1, Len(pages)))

\* A graph with a link of tier 5 and a link of tier 1, on a model with a
\* promoted page, which has no link.
C20_Witness ==
    /\ GraphIsCurrent
    /\ \E n \in DOMAIN HierOfGraph : HierOfGraph[n].tier = 5
    /\ \E n \in DOMAIN HierOfGraph : HierOfGraph[n].tier = 1
    /\ \E i \in PageIds :
          /\ pages[i].isSecondary
          /\ \A n \in DOMAIN HierOfGraph : HierOfGraph[n].source # i - 1

(***************************************************************************)
(* Properties of the graph data.                                           *)
(***************************************************************************)
\* The tag links of the graph, in the order they were pushed.
TagOfGraph == SelectSeq(graph.links, LAMBDA l : l.kind = "tag")

\* The two node indexes a link joins.
EndsOf(l) == {l.source, l.target}

\* The number of tags the tag sets of pages i and j have in common.
CommonTags(i, j) == Cardinality(Range(pages[i].tagsSet) \cap Range(pages[j].tagsSet))

\* Pages i and j are joined by an emitted hierarchical link.
HierJoined(i, j) == \E n \in DOMAIN HierOfGraph : EndsOf(HierOfGraph[n]) = {i - 1, j - 1}

\* The tag links that join pages i and j.
TagLinksJoining(i, j) == {n \in DOMAIN TagOfGraph : EndsOf(TagOfGraph[n]) = {i - 1, j - 1}}

\* C21: the graph holds exactly one tag link for each unordered pair of
\* distinct pages that share a tag and are joined by no hierarchical link,
\* with shared = the number of common tags; it holds no other tag link, and
\* no two links of the graph join the same pair of nodes.
C21_TagLinks ==
    GraphIsCurrent =>
        /\ \A i \in PageIds : \A j \in PageIds :
              i < j =>
                 /\ Cardinality(TagLinksJoining(i, j))
                       = IF CommonTags(i, j) > 0 /\ ~HierJoined(i, j) THEN 1 ELSE 0
                 /\ \A n \in TagLinksJoining(i, j) : TagOfGraph[n].shared = CommonTags(i, j)
        /\ \A n \in DOMAIN TagOfGraph :
              /\ TagOfGraph[n].source # TagOfGraph[n].target
              /\ EndsOf(TagOfGraph[n]) \subseteq 0..(Len(pages) - 1)
        /\ \A n \in DOMAIN graph.links : \A m \in DOMAIN graph.links :
              n # m => EndsOf(graph.links[n]) # EndsOf(graph.links[m])

\* A graph with a tag link for two shared tags, and a pair of pages that
\* share a tag but are joined by a hierarchical link and by no tag link.
C21_Witness ==
    /\ GraphIsCurrent
    /\ \E n \in DOMAIN TagOfGraph : TagOfGraph[n].shared = 2
    /\ \E i \in PageIds : \E j \in PageIds :
          i < j /\ CommonTags(i, j) > 0 /\ HierJoined(i, j) /\ TagLinksJoining(i, j) = {}

\* The neighbours the adjacency map gives node a.
NeighboursOf(a) == IF a \in DOMAIN graph.adj THEN graph.adj[a] ELSE {}

\* C22: the adjacency map is symmetric, node b is a neighbour of node a
\* exactly when an emitted link joins a and b, and no node is its own
\* neighbour.
C22_Adjacency ==
    GraphIsCurrent =>
        \A a \in 0..(Len(pages) - 1) :
            /\ a \notin NeighboursOf(a)
            /\ \A b \in 0..(Len(pages) - 1) :
                  /\ (b \in NeighboursOf(a)) = (a \in NeighboursOf(b))
                  /\ a # b => ((b \in NeighboursOf(a)) =
                                 (\E n \in DOMAIN graph.links : EndsOf(graph.links[n]) = {a, b}))
            /\ NeighboursOf(a) \subseteq 0..(Len(pages) - 1)

\* A graph where a node has one neighbour by a hierarchical link and another
\* by a tag link.
C22_Witness ==
    /\ GraphIsCurrent
    /\ \E a \in DOMAIN graph.adj :
          /\ Cardinality(graph.adj[a]) = 2
          /\ \E n \in DOMAIN HierOfGraph : a \in EndsOf(HierOfGraph[n])
          /\ \E n \in DOMAIN TagOfGraph : a \in EndsOf(TagOfGraph[n])

(***************************************************************************)
(* Properties of the parse on bundles with repeated ids.                   *)
(***************************************************************************)
Parsed4 == pc \in {"parsed", "hung", "attached", "ready"}

\* The last page of the collection that carries id k.
LastWithId(k) == CHOOSE i \in PageIds : pages[i].id = k /\ \A j \in PageIds : pages[j].id = k => j <= i

\* Page p declares as its parent the id k, which several pages carry.
DeclaresParent(p, k) ==
    /\ pages[p].parentRaw # Undef /\ k # Undef /\ Trim(pages[p].parentRaw) = k
    /\ Cardinality({i \in PageIds : pages[i].id = k}) > 1

\* Page p is a child of page q.
ChildOf(p, q) == pages[p].parent = q /\ p \in Range(pages[q].children)

\* Every block is a page and the lookup table maps every id to the last page
\* that carries it.
AllKeptLastWins ==
    /\ Len(pages) = Len(bundle)
    /\ \A i \in PageIds : pages[i].id = MetaVal(bundle[i].id)
    /\ DOMAIN byId = {pages[i].id : i \in PageIds}
    /\ \A k \in DOMAIN byId : byId[k] = LastWithId(k)

\* C23 as stated: every block remains a page, the lookup table maps an id to
\* the last page carrying it, and every page that declares the id as its
\* parent is a child of that last page.
C23_AllChildrenOfLast ==
    Parsed4 =>
        /\ AllKeptLastWins
        /\ \A p \in PageIds : \A k \in DOMAIN byId :
              DeclaresParent(p, k) => ChildOf(p, LastWithId(k))

\* C23, amended: every page other than root that declares the id as its
\* parent is a child of the last page carrying it, and of no other page.
C23_NonRootChildrenOfLast ==
    Parsed4 =>
        /\ AllKeptLastWins
        /\ \A p \in PageIds : \A k \in DOMAIN byId :
              (p # root /\ DeclaresParent(p, k)) =>
                  /\ ChildOf(p, LastWithId(k))
                  /\ \A q \in PageIds : q # LastWithId(k) => p \notin Range(pages[q].children)

\* Two pages carry the same id, a third declares it as parent and is the
\* child of the later one; the earlier one has no child.
C23_Witness ==
    /\ Parsed4
    /\ \E i \in PageIds : \E j \in PageIds : \E p \in PageIds :
          /\ i < j /\ pages[i].id = pages[j].id /\ pages[i].id # Undef
          /\ p # root /\ p # i /\ p # j
          /\ DeclaresParent(p, pages[j].id)
          /\ ChildOf(p, j)
          /\ pages[i].children = <<>>

(***************************************************************************)
(* Properties of attachSecondaryHomes.                                     *)
(***************************************************************************)
RECURSIVE ParentPow(_, _)
\* The page n parent links above page i, 0 when the chain ends before.
ParentPow(i, n) ==
    IF n = 0 THEN i
    ELSE IF ParentPow(i, n - 1) = 0 THEN 0
    ELSE pages[ParentPow(i, n - 1)].parent

\* The ancestor chain of page i comes back to page i.
OnParentCycle(i) == \E n \in 1..Len(pages) : ParentPow(i, n) = i

\* The parent links form a cycle among pages other than root.
HasParentCycle == \E i \in PageIds : i # root /\ OnParentCycle(i)

\* C24: attachSecondaryHomes does not terminate when the parent links of the
\* parsed model form a cycle among non-root pages, and terminates on every
\* other model.
C24_HangsIffCycle ==
    [][(pc = "parsed" /\ pc' # "parsed") => ((pc' = "hung") = HasParentCycle)]_vars

\* The walk hangs on two pages that are each other's parent, in a model where
\* root is on no cycle.
C24_Witness ==
    /\ pc = "hung"
    /\ ~OnParentCycle(root)
    /\ \E i \in PageIds : \E j \in PageIds :
          i # j /\ pages[i].parent = j /\ pages[j].parent = i

\* The pages that are promoted after the step.
PromotedNext == {i \in 1..Len(pages') : pages'[i].isSecondary}

\* C25: a run of attachSecondaryHomes changes, on each promoted page, the
\* parent (to root), the promoted flag and the clusterId only, appends the
\* promoted pages to root's children, and leaves every other page as it was:
\* no other parent and no other children list changes.
C25_PromotionFrame ==
    [][(pc = "parsed" /\ pc' = "attached") =>
          /\ Len(pages') = Len(pages)
          /\ \A i \in PageIds :
                IF i \in PromotedNext
                THEN /\ i # root
                     /\ pages[i].parent = 0
                     /\ pages'[i] = [pages[i] EXCEPT !.parent = root, !.isSecondary = TRUE,
                                                     !.clusterId = pages'[i].clusterId]
                ELSE IF i = root
                THEN /\ pages'[i] = [pages[i] EXCEPT !.children = pages'[i].children]
                     /\ SubSeq(pages'[i].children, 1, Len(pages[i].children)) = pages[i].children
                     /\ Len(pages'[i].children)
                           = Len(pages[i].children) + Cardinality(PromotedNext)
                     /\ Range(pages'[i].children) = Range(pages[i].children) \cup PromotedNext
                ELSE pages'[i] = pages[i]]_vars

\* After a promotion: root had a child before and got the promoted page
\* behind it, and the promoted page has a child of its own.
C25_Witness ==
    /\ pc = "attached"
    /\ Len(pages[root].children) >= 2
    /\ ~pages[pages[root].children[1]].isSecondary
    /\ \E i \in PageIds : pages[i].isSecondary /\ pages[i].children # <<>>

(***************************************************************************)
(* Properties of the section bodies.                                       *)
(***************************************************************************)
RECURSIVE LineStart(_, _)
\* The 0-based position in the content at which its line k starts: behind
\* the line before and its terminator, LF or CR LF.
LineStart(content, k) ==
    IF k = 1 THEN 0
    ELSE LET sep == LineStart(content, k - 1) + Len(SplitLines(content)[k - 1])
         IN  IF content[sep + 1] = CR THEN sep + 2 ELSE sep + 1

\* The recognized heading lines of page i: heading markers outside fences.
HeadLines(i) ==
    SelectSeq([k \in 1..Len(LinesOf(i)) |-> k],
              LAMBDA k : HasHeadingMarker(LinesOf(i)[k]) /\ ~InsideFence(i, k))

\* The content of page i from the end of its n-th heading line to the start
\* of the next heading line, or to the end of the content.
BetweenHeadings(i, n) ==
    Slice(pages[i].content,
          LineStart(pages[i].content, HeadLines(i)[n]) + Len(LinesOf(i)[HeadLines(i)[n]]),
          IF n < Len(HeadLines(i))
          THEN LineStart(pages[i].content, HeadLines(i)[n + 1])
          ELSE Len(pages[i].content))

\* C26: the body of every section is the content between the end of its
\* heading line and the start of the next recognized heading line (or the
\* end of the content), trimmed, with lines separated by LF or by CR LF.
C26_SectionBodies ==
    pc \in {"parsed", "attached", "ready"} =>
        \A i \in PageIds :
            \A n \in 1..Len(pages[i].sections) :
                pages[i].sections[n].body = Trim(BetweenHeadings(i, n))

(***************************************************************************)
(* Queries made of one-character tokens only.                              *)
(***************************************************************************)
\* The trimmed query is not empty and the filter of line 598 leaves no token.
OnlyShortTokens == QueryVal # <<>> /\ QueryTokens = <<>>
\* The matched sections of the entry of page i, in the order of the list.
MatchedOf(i) ==
    [m \in 1..Len(scored[RankOf(i)].matchedSecs) |-> scored[RankOf(i)].matchedSecs[m].sec]
\* Every page is listed once, with every one of its sections and the score
\* min(4, number of its sections).
ListsEveryPage ==
    /\ Len(scored) = Len(pages)
    /\ \A i \in PageIds :
          /\ Listed(i)
          /\ MatchedOf(i) = [m \in 1..Len(pages[i].sections) |-> m]
          /\ ScoreAt(i) = Min(SecCountCap, Len(pages[i].sections))

\* C28: after search(q) with a non-empty q whose tokens are all shorter than 2
\* characters the results list is shown (the search is not inactive) and lists
\* every page, each with all its sections as matched sections and the score
\* min(4, number of its sections).
C28_ShortTokensListAll ==
    (pc = "ready" /\ OnlyShortTokens) =>
        /\ view = [results |-> "", tree |-> "none", list |-> "items"]
        /\ ListsEveryPage
\* The same on collections whose pages all have a title.
C28_TitledListAll ==
    (pc = "ready" /\ OnlyShortTokens /\ \A i \in PageIds : pages[i].title # Undef) =>
        /\ view = [results |-> "", tree |-> "none", list |-> "items"]
        /\ ListsEveryPage
C28_Witness ==
    /\ pc = "ready" /\ OnlyShortTokens /\ Len(QueryVal) > 1 /\ Len(pages) = 2
    /\ ListsEveryPage
    /\ \E i \in PageIds : ScoreAt(i) = SecCountCap
    /\ \E i \in PageIds : ScoreAt(i) = 0

(***************************************************************************)
(* Section deep links.                                                     *)
(***************************************************************************)
\* The section links the application generates for the sections of its pages
\* (search line 673), as (page, section, href).
SectionLinks ==
    UNION {{<<i, n, SectionLink(pages[i].hash, pages[i].sections[n].id)>> :
               n \in 1..Len(pages[i].sections)} : i \in PageIds}

\* C27: route, given a generated section link of a page, resolves to that page
\* with the anchor equal to the section id.
C27_SectionLinkRoundTrip ==
    pc = "ready" =>
        \A l \in SectionLinks :
            location = l[3] => /\ currentPage = l[1]
                               /\ anchor = pages[l[1]].sections[l[2]].id
C27_Witness ==
    /\ pc = "ready"
    /\ \E l \in SectionLinks :
          /\ location = l[3] /\ currentPage = l[1] /\ l[1] # root
          /\ anchor = pages[l[1]].sections[l[2]].id
          /\ Len(anchor) > 1

(***************************************************************************)
(* Overlapping renders.                                                    *)
(***************************************************************************)
\* #content and its decorations are those of page i.
ShowsPage(i) ==
    /\ contentEl = i
    /\ decor = Decorate(i, i, NumberHeadingIds(RenderedLevels(pages[i].content)))

\* C30: once every render route started has completed, #content and its
\* decorations (table of contents, copy links, prev/next, see-also) are those
\* of the page held in currentPage, whatever renders overlapped.
C30_LastRouteWins ==
    (pc = "ready" /\ renders = <<>> /\ currentPage # 0) => ShowsPage(currentPage)

(***************************************************************************)
(* The clear button of the search box.                                     *)
(***************************************************************************)
\* C29: from the click on the clear button until the next input event the view
\* is in the inactive-search state (tree shown, results emptied and hidden),
\* whatever timeout was pending at the click.
C29_ClearedStaysInactive == lastEvent = "click" => view = InactiveView
====
